---- MODULE Spec2Model ----
(***************************************************************************)
(* The encointer ceremonies module of the substraTEE node runtime          *)
(* (runtime/src/encointer_ceremonies.rs) as a state machine: the storage   *)
(* items of decl_storage!, the three dispatchable calls of decl_module!    *)
(* and the private functions they call.                                    *)
(***************************************************************************)
EXTENDS Integers, Sequences, FiniteSets, TLC

(***************************************************************************)
(* Bounds of the model.                                                    *)
(***************************************************************************)
\* longest witness batch the environment submits
MaxBatch == 2
\* ceremonies a run closes before it stops
MaxCeremonies == 1

(***************************************************************************)
(* Fixed-width integers.  A u32 is kept as its two 16-bit limbs, least     *)
(* significant first, so that u32::MAX and the overflow of                 *)
(* checked_add(1) are what they are in the code.  The u64 indices and      *)
(* counters are plain naturals: each increment needs one more signing      *)
(* account, so they stay far below 2^64.                                   *)
(***************************************************************************)
LimbBase == 256 * 256

U32(n) == <<n % LimbBase, n \div LimbBase>>

U32Max == <<LimbBase - 1, LimbBase - 1>>

\* a u64 (the test runtime's Balance) as its four 16-bit limbs
U64(n) == <<n % LimbBase, n \div LimbBase, 0, 0>>

RECURSIVE add_limbs(_, _, _)
\* limb-wise addition with carry; the last element of the result is the carry out
add_limbs(a, b, carry) ==
    IF Len(a) = 0 THEN <<carry>>
    ELSE LET t == a[1] + b[1] + carry
         IN <<t % LimbBase>> \o add_limbs(Tail(a), Tail(b), t \div LimbBase)

\* checked_add of two integers of the same width: None on overflow
checked_add(a, b) ==
    LET r == add_limbs(a, b, 0)
    IN IF r[Len(r)] = 0 THEN [some |-> TRUE, val |-> SubSeq(r, 1, Len(a))]
       ELSE [some |-> FALSE, val |-> a]

RECURSIVE LEBytes(_, _)
\* the n little-endian bytes of v
LEBytes(v, n) == IF n = 0 THEN <<>> ELSE <<v % 256>> \o LEBytes(v \div 256, n - 1)

(***************************************************************************)
(* Accounts.  An AccountId is the number its 32 bytes spell;               *)
(* AccountId::default() is the all-zero id and signs no transaction.       *)
(***************************************************************************)
DefaultAccount == 0

\* Alice, Bob and Charlie of the test keyring
Accounts == {1, 2, 3}

SINGLE_MEETUP_INDEX == 1

MEETUP_MAX == 12

REWARD == 1000

REGISTERING == "REGISTERING"
ASSIGNING == "ASSIGNING"
WITNESSING == "WITNESSING"

(***************************************************************************)
(* Storage.  A double_map is a function whose domain is the set of the     *)
(* keys <<k1, k2>> that exist; a read of an absent key yields the default  *)
(* of the value type.                                                      *)
(***************************************************************************)
VARIABLES
    ParticipantRegistry, ParticipantIndex, ParticipantCount,
    MeetupRegistry, MeetupIndex, MeetupCount,
    WitnessRegistry, WitnessIndex, WitnessCount,
    MeetupParticipantCountVote,
    CurrentCeremonyIndex, CurrentPhase,
    CeremonyReward, CeremonyMaster,
    FreeBalance,
    EnclaveRegistry, EnclaveCount, EnclaveIndex,
    LatestIpfsHash, WorkerForShard,
    events,
    call,
    result,
    ceremonies_closed

registries == <<ParticipantRegistry, ParticipantIndex, ParticipantCount,
                MeetupRegistry, MeetupIndex, MeetupCount,
                WitnessRegistry, WitnessIndex, WitnessCount,
                MeetupParticipantCountVote>>

config == <<CeremonyReward, CeremonyMaster>>

\* the storage of the module substraTEERegistry
enclaves == <<EnclaveRegistry, EnclaveCount, EnclaveIndex, LatestIpfsHash, WorkerForShard>>

vars == <<registries, CurrentCeremonyIndex, CurrentPhase, config, FreeBalance,
          enclaves, events, call, result, ceremonies_closed>>

\* the storage as one value, which the functions below read and return
Storage ==
    [ParticipantRegistry |-> ParticipantRegistry,
     ParticipantIndex |-> ParticipantIndex,
     ParticipantCount |-> ParticipantCount,
     MeetupRegistry |-> MeetupRegistry,
     MeetupIndex |-> MeetupIndex,
     MeetupCount |-> MeetupCount,
     WitnessRegistry |-> WitnessRegistry,
     WitnessIndex |-> WitnessIndex,
     WitnessCount |-> WitnessCount,
     MeetupParticipantCountVote |-> MeetupParticipantCountVote,
     CurrentCeremonyIndex |-> CurrentCeremonyIndex,
     CurrentPhase |-> CurrentPhase,
     CeremonyReward |-> CeremonyReward,
     CeremonyMaster |-> CeremonyMaster,
     FreeBalance |-> FreeBalance]

EmptyMap == [k \in {} |-> 0]

\* StorageDoubleMap::get
Get(m, k, default) == IF k \in DOMAIN m THEN m[k] ELSE default

\* StorageDoubleMap::exists
Exists(m, k) == k \in DOMAIN m

\* StorageDoubleMap::insert
Insert(m, k, v) == [x \in DOMAIN m \cup {k} |-> IF x = k THEN v ELSE m[x]]

\* StorageDoubleMap::remove_prefix
RemovePrefix(m, k1) == [x \in {y \in DOMAIN m : y[1] # k1} |-> m[x]]

\* the getters decl_storage! generates
participant_registry(s, c, p) == Get(s.ParticipantRegistry, <<c, p>>, DefaultAccount)
participant_index(s, c, a) == Get(s.ParticipantIndex, <<c, a>>, 0)
meetup_registry(s, c, m) == Get(s.MeetupRegistry, <<c, m>>, <<>>)
meetup_index(s, c, a) == Get(s.MeetupIndex, <<c, a>>, 0)
witness_registry(s, c, w) == Get(s.WitnessRegistry, <<c, w>>, <<>>)
witness_index(s, c, a) == Get(s.WitnessIndex, <<c, a>>, 0)
meetup_participant_count_vote(s, c, a) == Get(s.MeetupParticipantCountVote, <<c, a>>, 0)
free_balance(s, a) == Get(s.FreeBalance, a, U64(0))

\* Vec::contains
Contains(v, x) == \E i \in 1..Len(v) : v[i] = x

\* Vec::remove_item: removes the first occurrence
remove_item(v, x) ==
    IF Contains(v, x)
    THEN LET i == CHOOSE j \in 1..Len(v) : v[j] = x /\ \A k \in 1..(j - 1) : v[k] # x
         IN SubSeq(v, 1, i - 1) \o SubSeq(v, i + 1, Len(v))
    ELSE v

Min(a, b) == IF a < b THEN a ELSE b

(***************************************************************************)
(* Witnesses.  A signature is the key that made it and the bytes it was    *)
(* made over; Verify::verify holds when both are the ones asked for.       *)
(***************************************************************************)
ClaimOfAttendance(claimant, cindex, mindex, n) ==
    [claimant_public |-> claimant,
     ceremony_index |-> cindex,
     meetup_index |-> mindex,
     number_of_participants_confirmed |-> n]

\* AccountId32::encode: 32 bytes
encode_account(a) == [i \in 1..32 |-> IF i = 1 THEN a ELSE 0]

\* ClaimOfAttendance::encode (derived): the fields in order, integers little-endian
encode(claim) ==
    encode_account(claim.claimant_public)
        \o LEBytes(claim.ceremony_index[1], 2) \o LEBytes(claim.ceremony_index[2], 2)
        \o LEBytes(claim.meetup_index, 8)
        \o LEBytes(claim.number_of_participants_confirmed, 4)

\* Pair::sign
sign(key, msg) == [signer |-> key, msg |-> msg]

\* Verify::verify
verify(signature, msg, public) == signature.signer = public /\ signature.msg = msg

Witness(claim, signature, public) ==
    [claim |-> claim, signature |-> signature, public |-> public]

\* the tests' helper, for the ceremony and meetup given
meetup_claim_sign(claimant, cindex, mindex, witness, n_participants) ==
    LET claim == ClaimOfAttendance(claimant, cindex, mindex, n_participants)
    IN Witness(claim, sign(witness, encode(claim)), witness)

\* faulty variant: a witness signed by the claimant of its claim is let through
verify_witness_signature_self_signed(witness) ==
    IF verify(witness.signature, encode(witness.claim), witness.public)
    THEN "Ok"
    ELSE "witness signature is invalid"

verify_witness_signature(witness) ==
    IF witness.public = witness.claim.claimant_public
    THEN "witness may not be self-signed"
    ELSE IF verify(witness.signature, encode(witness.claim), witness.public)
    THEN "Ok"
    ELSE "witness signature is invalid"

(***************************************************************************)
(* The private functions of the module.                                    *)
(***************************************************************************)
\* faulty variant: WitnessCount is not reset
purge_registry_keeps_witness_count(s, index) ==
    [s EXCEPT !.ParticipantRegistry = RemovePrefix(s.ParticipantRegistry, index),
              !.ParticipantIndex = RemovePrefix(s.ParticipantIndex, index),
              !.ParticipantCount = 0,
              !.MeetupRegistry = RemovePrefix(s.MeetupRegistry, index),
              !.MeetupIndex = RemovePrefix(s.MeetupIndex, index),
              !.MeetupCount = 0,
              !.WitnessRegistry = RemovePrefix(s.WitnessRegistry, index),
              !.WitnessIndex = RemovePrefix(s.WitnessIndex, index),
              !.MeetupParticipantCountVote =
                  RemovePrefix(s.MeetupParticipantCountVote, index)]

\* faulty variant: the votes are not removed
purge_registry_keeps_votes(s, index) ==
    [s EXCEPT !.ParticipantRegistry = RemovePrefix(s.ParticipantRegistry, index),
              !.ParticipantIndex = RemovePrefix(s.ParticipantIndex, index),
              !.ParticipantCount = 0,
              !.MeetupRegistry = RemovePrefix(s.MeetupRegistry, index),
              !.MeetupIndex = RemovePrefix(s.MeetupIndex, index),
              !.MeetupCount = 0,
              !.WitnessRegistry = RemovePrefix(s.WitnessRegistry, index),
              !.WitnessIndex = RemovePrefix(s.WitnessIndex, index),
              !.WitnessCount = 0]

purge_registry(s, index) ==
    [s EXCEPT !.ParticipantRegistry = RemovePrefix(s.ParticipantRegistry, index),
              !.ParticipantIndex = RemovePrefix(s.ParticipantIndex, index),
              !.ParticipantCount = 0,
              !.MeetupRegistry = RemovePrefix(s.MeetupRegistry, index),
              !.MeetupIndex = RemovePrefix(s.MeetupIndex, index),
              !.MeetupCount = 0,
              !.WitnessRegistry = RemovePrefix(s.WitnessRegistry, index),
              !.WitnessIndex = RemovePrefix(s.WitnessIndex, index),
              !.WitnessCount = 0,
              !.MeetupParticipantCountVote =
                  RemovePrefix(s.MeetupParticipantCountVote, index)]

RECURSIVE assign_loop(_, _, _, _)
\* the loop of assign_meetups from p up to, not including, end
assign_loop(s, meetup, p, end) ==
    IF p >= end THEN [st |-> s, meetup |-> meetup]
    ELSE LET cindex == s.CurrentCeremonyIndex
             participant == participant_registry(s, cindex, p)
         IN assign_loop(
                [s EXCEPT !.MeetupIndex =
                     Insert(s.MeetupIndex, <<cindex, participant>>, SINGLE_MEETUP_INDEX)],
                Append(meetup, participant), p + 1, end)

\* faulty variant: MeetupIndex is written for the first participant only
assign_meetups_first_index_only(s) ==
    LET cindex == s.CurrentCeremonyIndex
        pcount == s.ParticipantCount
        r == assign_loop(s, <<>>, 1, Min(pcount + 1, MEETUP_MAX + 1))
    IN [assign_loop(s, <<>>, 1, Min(pcount + 1, 2)).st
           EXCEPT !.MeetupRegistry =
                      Insert(s.MeetupRegistry, <<cindex, SINGLE_MEETUP_INDEX>>, r.meetup),
                  !.MeetupCount = 1]

\* faulty variant: every registered participant is assigned, past the twelfth
assign_meetups_uncapped(s) ==
    LET cindex == s.CurrentCeremonyIndex
        pcount == s.ParticipantCount
        r == assign_loop(s, <<>>, 1, pcount + 1)
    IN [r.st EXCEPT !.MeetupRegistry =
                        Insert(r.st.MeetupRegistry, <<cindex, SINGLE_MEETUP_INDEX>>, r.meetup),
                    !.MeetupCount = 1]

\* faulty variant: no meetup is set up when nobody registered
assign_meetups_skipping_empty(s) ==
    LET cindex == s.CurrentCeremonyIndex
        pcount == s.ParticipantCount
        r == assign_loop(s, <<>>, 1, Min(pcount + 1, MEETUP_MAX + 1))
    IN IF pcount = 0 THEN s
       ELSE [r.st EXCEPT !.MeetupRegistry =
                             Insert(r.st.MeetupRegistry, <<cindex, SINGLE_MEETUP_INDEX>>, r.meetup),
                         !.MeetupCount = 1]

assign_meetups(s) ==
    LET cindex == s.CurrentCeremonyIndex
        pcount == s.ParticipantCount
        r == assign_loop(s, <<>>, 1, Min(pcount + 1, MEETUP_MAX + 1))
    IN [r.st EXCEPT !.MeetupRegistry =
                        Insert(r.st.MeetupRegistry, <<cindex, SINGLE_MEETUP_INDEX>>, r.meetup),
                    !.MeetupCount = 1]

\* Vec::iter().position
position(candidates, n) ==
    IF \E i \in 1..Len(candidates) : candidates[i][1] = n
    THEN CHOOSE i \in 1..Len(candidates) :
             candidates[i][1] = n /\ \A j \in 1..(i - 1) : candidates[j][1] # n
    ELSE 0

RECURSIVE ballot_loop_appending(_, _, _, _)
\* faulty variant: a new candidate is put at the end of the list
ballot_loop_appending(s, participants, i, candidates) ==
    IF i > Len(participants) THEN candidates
    ELSE LET this_vote == meetup_participant_count_vote(
                              s, s.CurrentCeremonyIndex, participants[i])
             idx == position(candidates, this_vote)
         IN IF this_vote > 0
            THEN ballot_loop_appending(s, participants, i + 1,
                     IF idx # 0
                     THEN [candidates EXCEPT ![idx] = <<candidates[idx][1], candidates[idx][2] + 1>>]
                     ELSE candidates \o <<<<this_vote, 1>>>>)
            ELSE ballot_loop_appending(s, participants, i + 1, candidates)

RECURSIVE ballot_loop(_, _, _, _)
\* the loop of ballot_meetup_n_votes over the participants from position i
ballot_loop(s, participants, i, candidates) ==
    IF i > Len(participants) THEN candidates
    ELSE LET this_vote == meetup_participant_count_vote(
                              s, s.CurrentCeremonyIndex, participants[i])
             idx == position(candidates, this_vote)
         IN IF this_vote > 0
            THEN ballot_loop(s, participants, i + 1,
                     IF idx # 0
                     THEN [candidates EXCEPT ![idx] = <<candidates[idx][1], candidates[idx][2] + 1>>]
                     ELSE <<<<this_vote, 1>>>> \o candidates)
            ELSE ballot_loop(s, participants, i + 1, candidates)

\* where a stable sort by descending count puts x among the sorted elements before it
insert_sorted(sorted, x) ==
    LET k == Cardinality({i \in 1..Len(sorted) : sorted[i][2] >= x[2]})
    IN SubSeq(sorted, 1, k) \o <<x>> \o SubSeq(sorted, k + 1, Len(sorted))

RECURSIVE sort_by_count(_, _)
\* slice::sort_by(|a,b| b.1.cmp(&a.1)): stable, descending vote count
sort_by_count(v, sorted) ==
    IF Len(v) = 0 THEN sorted
    ELSE sort_by_count(Tail(v), insert_sorted(sorted, Head(v)))

\* faulty variant: the candidates are not sorted by their count
ballot_meetup_n_votes_unsorted(s, meetup_idx) ==
    LET cindex == s.CurrentCeremonyIndex
        meetup_participants == meetup_registry(s, cindex, meetup_idx)
        n_vote_candidates == ballot_loop(s, meetup_participants, 1, <<>>)
    IN IF Len(n_vote_candidates) = 0 THEN [some |-> FALSE]
       ELSE IF n_vote_candidates[1][2] < 3 THEN [some |-> FALSE]
       ELSE [some |-> TRUE, n |-> n_vote_candidates[1][1], c |-> n_vote_candidates[1][2]]

\* faulty variant: two equal votes make a dependable ballot
ballot_meetup_n_votes_two_suffice(s, meetup_idx) ==
    LET cindex == s.CurrentCeremonyIndex
        meetup_participants == meetup_registry(s, cindex, meetup_idx)
        n_vote_candidates == sort_by_count(ballot_loop(s, meetup_participants, 1, <<>>), <<>>)
    IN IF Len(n_vote_candidates) = 0 THEN [some |-> FALSE]
       ELSE IF n_vote_candidates[1][2] < 2 THEN [some |-> FALSE]
       ELSE [some |-> TRUE, n |-> n_vote_candidates[1][1], c |-> n_vote_candidates[1][2]]

\* Option<(u32, u32)>: [some |-> FALSE] is None
ballot_meetup_n_votes(s, meetup_idx) ==
    LET cindex == s.CurrentCeremonyIndex
        meetup_participants == meetup_registry(s, cindex, meetup_idx)
        n_vote_candidates == sort_by_count(ballot_loop(s, meetup_participants, 1, <<>>), <<>>)
    IN IF Len(n_vote_candidates) = 0 THEN [some |-> FALSE]
       ELSE IF n_vote_candidates[1][2] < 3 THEN [some |-> FALSE]
       ELSE [some |-> TRUE, n |-> n_vote_candidates[1][1], c |-> n_vote_candidates[1][2]]

\* faulty variant: every witness of p counts, whether it holds p or not
has_witnessed_unreciprocated(s, p, witnesses) == Len(witnesses)

\* the inner loop of issue_rewards: how many of p's witnesses hold p as a witness
has_witnessed(s, p, witnesses) ==
    Cardinality({i \in 1..Len(witnesses) :
        Contains(witness_registry(s, s.CurrentCeremonyIndex,
                     witness_index(s, s.CurrentCeremonyIndex, witnesses[i])), p)})

\* the three tests of issue_rewards on a meetup participant
merits_reward(s, p, n_confirmed, n_honest_participants) ==
    LET cindex == s.CurrentCeremonyIndex
        witnesses == witness_registry(s, cindex, witness_index(s, cindex, p))
    IN /\ meetup_participant_count_vote(s, cindex, p) = n_confirmed
       /\ ~(Len(witnesses) < n_honest_participants - 1 \/ Len(witnesses) = 0)
       /\ ~(has_witnessed(s, p, witnesses) < n_honest_participants - 1)

RECURSIVE reward_loop_wrapping(_, _, _, _, _)
\* faulty variant: the new balance is the sum modulo 2^64
reward_loop_wrapping(s, participants, i, n_confirmed, n_honest_participants) ==
    IF i > Len(participants) THEN [panic |-> FALSE, st |-> s]
    ELSE LET p == participants[i]
             sum == add_limbs(free_balance(s, p), s.CeremonyReward, 0)
         IN IF ~merits_reward(s, p, n_confirmed, n_honest_participants)
            THEN reward_loop_wrapping(s, participants, i + 1, n_confirmed, n_honest_participants)
            ELSE reward_loop_wrapping(
                     [s EXCEPT !.FreeBalance =
                         Insert(s.FreeBalance, p, SubSeq(sum, 1, Len(sum) - 1))],
                     participants, i + 1, n_confirmed, n_honest_participants)

RECURSIVE reward_loop(_, _, _, _, _)
\* the loop of issue_rewards over the meetup participants from position i;
\* panic is set when checked_add of a balance fails
reward_loop(s, participants, i, n_confirmed, n_honest_participants) ==
    IF i > Len(participants) THEN [panic |-> FALSE, st |-> s]
    ELSE LET p == participants[i]
             new_balance == checked_add(free_balance(s, p), s.CeremonyReward)
         IN IF ~merits_reward(s, p, n_confirmed, n_honest_participants)
            THEN reward_loop(s, participants, i + 1, n_confirmed, n_honest_participants)
            ELSE IF ~new_balance.some
            THEN [panic |-> TRUE, st |-> s]
            ELSE reward_loop(
                     [s EXCEPT !.FreeBalance = Insert(s.FreeBalance, p, new_balance.val)],
                     participants, i + 1, n_confirmed, n_honest_participants)

\* faulty variant: the participants of the meetup are gone through twice
issue_rewards_twice(s) ==
    LET cindex == s.CurrentCeremonyIndex
        ballot == ballot_meetup_n_votes(s, SINGLE_MEETUP_INDEX)
    IN IF s.CurrentPhase # WITNESSING
       THEN [res |-> "issuance can only be called at the end of WITNESSING phase",
             panic |-> FALSE, st |-> s]
       ELSE IF s.MeetupCount # 1
       THEN [res |-> "registry must contain exactly one meetup for PoC1",
             panic |-> FALSE, st |-> s]
       ELSE IF ~ballot.some
       THEN [res |-> "Ok", panic |-> FALSE, st |-> s]
       ELSE LET once == reward_loop(s, meetup_registry(s, cindex, SINGLE_MEETUP_INDEX), 1,
                                    ballot.n, ballot.c)
                r == reward_loop(once.st, meetup_registry(s, cindex, SINGLE_MEETUP_INDEX), 1,
                                 ballot.n, ballot.c)
            IN [res |-> "Ok", panic |-> once.panic \/ r.panic, st |-> r.st]

issue_rewards(s) ==
    LET cindex == s.CurrentCeremonyIndex
        ballot == ballot_meetup_n_votes(s, SINGLE_MEETUP_INDEX)
    IN IF s.CurrentPhase # WITNESSING
       THEN [res |-> "issuance can only be called at the end of WITNESSING phase",
             panic |-> FALSE, st |-> s]
       ELSE IF s.MeetupCount # 1
       THEN [res |-> "registry must contain exactly one meetup for PoC1",
             panic |-> FALSE, st |-> s]
       ELSE IF ~ballot.some
       THEN [res |-> "Ok", panic |-> FALSE, st |-> s]
       ELSE LET r == reward_loop(s, meetup_registry(s, cindex, SINGLE_MEETUP_INDEX), 1,
                                 ballot.n, ballot.c)
            IN [res |-> "Ok", panic |-> r.panic, st |-> r.st]

(***************************************************************************)
(* The dispatchable calls, as functions of the storage and the call's      *)
(* input: the Result returned, the storage left behind, the events         *)
(* deposited.  A call that returns Err has written nothing before it.      *)
(***************************************************************************)
Err(s, msg) == [res |-> msg, st |-> s, events |-> <<>>]

PhaseChangedTo(phase) == [event |-> "PhaseChangedTo", phase |-> phase]

\* faulty variant: the sender is not compared with the master
is_ceremony_master_unchecked(s, sender) == TRUE

\* ensure!(sender == <CeremonyMaster<T>>::get(), ..)
is_ceremony_master(s, sender) == sender = s.CeremonyMaster

\* faulty variant: the index saturates at u32::MAX
next_ceremony_index_saturating(current_ceremony_index) ==
    checked_add(current_ceremony_index, U32(1)).val

\* current_ceremony_index.checked_add(1), None => 0
next_ceremony_index(current_ceremony_index) ==
    LET v == checked_add(current_ceremony_index, U32(1))
    IN IF v.some THEN v.val ELSE U32(0)

\* the WITNESSING arm of next_phase once the rewards are issued
close_ceremony(s) ==
    LET current_ceremony_index == s.CurrentCeremonyIndex
    IN [purge_registry(s, current_ceremony_index)
           EXCEPT !.CurrentCeremonyIndex = next_ceremony_index(current_ceremony_index)]

\* faulty variant: the event carries the phase that is left
next_phase_announcing_current(s, sender) ==
    IF ~is_ceremony_master(s, sender)
    THEN Err(s, "only the CeremonyMaster can call this function")
    ELSE LET current_phase == s.CurrentPhase
             rewards == issue_rewards(s)
             next == CASE current_phase = REGISTERING ->
                             [phase |-> ASSIGNING, st |-> assign_meetups(s)]
                       [] current_phase = ASSIGNING ->
                             [phase |-> WITNESSING, st |-> s]
                       [] current_phase = WITNESSING ->
                             [phase |-> REGISTERING, st |-> close_ceremony(rewards.st)]
         IN IF current_phase = WITNESSING /\ rewards.panic
            THEN [res |-> "panic: Balance should never overflow", st |-> s, events |-> <<>>]
            ELSE [res |-> "Ok",
                  st |-> [next.st EXCEPT !.CurrentPhase = next.phase],
                  events |-> <<PhaseChangedTo(current_phase)>>]

\* faulty variant: an empty registry is an error of assign_meetups that
\* next_phase passes on
next_phase_needing_participants(s, sender) ==
    IF ~is_ceremony_master(s, sender)
    THEN Err(s, "only the CeremonyMaster can call this function")
    ELSE IF s.CurrentPhase = REGISTERING /\ s.ParticipantCount = 0
    THEN Err(s, "no participants to assign")
    ELSE LET current_phase == s.CurrentPhase
             rewards == issue_rewards(s)
             next == CASE current_phase = REGISTERING ->
                             [phase |-> ASSIGNING, st |-> assign_meetups(s)]
                       [] current_phase = ASSIGNING ->
                             [phase |-> WITNESSING, st |-> s]
                       [] current_phase = WITNESSING ->
                             [phase |-> REGISTERING, st |-> close_ceremony(rewards.st)]
         IN IF current_phase = WITNESSING /\ rewards.panic
            THEN [res |-> "panic: Balance should never overflow", st |-> s, events |-> <<>>]
            ELSE [res |-> "Ok",
                  st |-> [next.st EXCEPT !.CurrentPhase = next.phase],
                  events |-> <<PhaseChangedTo(next.phase)>>]

next_phase(s, sender) ==
    IF ~is_ceremony_master(s, sender)
    THEN Err(s, "only the CeremonyMaster can call this function")
    ELSE LET current_phase == s.CurrentPhase
             rewards == issue_rewards(s)
             next == CASE current_phase = REGISTERING ->
                             [phase |-> ASSIGNING, st |-> assign_meetups(s)]
                       [] current_phase = ASSIGNING ->
                             [phase |-> WITNESSING, st |-> s]
                       [] current_phase = WITNESSING ->
                             [phase |-> REGISTERING, st |-> close_ceremony(rewards.st)]
         IN IF current_phase = WITNESSING /\ rewards.panic
            THEN [res |-> "panic: Balance should never overflow", st |-> s, events |-> <<>>]
            ELSE [res |-> "Ok",
                  st |-> [next.st EXCEPT !.CurrentPhase = next.phase],
                  events |-> <<PhaseChangedTo(next.phase)>>]

\* faulty variant: only the WITNESSING phase is closed to registrations
registering_allowed_while_assigning(s) == s.CurrentPhase # WITNESSING

\* ensure!(<CurrentPhase>::get() == CeremonyPhaseType::REGISTERING, ..)
registering_allowed(s) == s.CurrentPhase = REGISTERING

\* faulty variant: the index is looked up under ceremony 0
already_registered_wrong_key(s, cindex, sender) ==
    Exists(s.ParticipantIndex, <<U32(0), sender>>)

\* <ParticipantIndex<T>>::exists(&cindex, &sender)
already_registered(s, cindex, sender) == Exists(s.ParticipantIndex, <<cindex, sender>>)

\* faulty variant: positions start at 0
new_participant_count_zero_based(count) == IF count = 0 THEN 0 ELSE count + 1

\* count.checked_add(1)
new_participant_count(count) == count + 1

\* faulty variant: the count is put before the sender is looked up
register_participant_counting_first(s, sender) ==
    LET cindex == s.CurrentCeremonyIndex
        new_count == new_participant_count(s.ParticipantCount)
        counted == [s EXCEPT !.ParticipantCount = new_count]
    IN IF ~registering_allowed(s)
       THEN Err(s, "registering participants can only be done during REGISTERING phase")
       ELSE IF already_registered(s, cindex, sender)
       THEN Err(counted, "already registered participant")
       ELSE [res |-> "Ok",
             st |-> [counted EXCEPT
                 !.ParticipantRegistry = Insert(s.ParticipantRegistry, <<cindex, new_count>>, sender),
                 !.ParticipantIndex = Insert(s.ParticipantIndex, <<cindex, sender>>, new_count)],
             events |-> <<>>]

register_participant(s, sender) ==
    LET cindex == s.CurrentCeremonyIndex
        count == s.ParticipantCount
        new_count == new_participant_count(count)
    IN IF ~registering_allowed(s)
       THEN Err(s, "registering participants can only be done during REGISTERING phase")
       ELSE IF already_registered(s, cindex, sender)
       THEN Err(s, "already registered participant")
       ELSE [res |-> "Ok",
             st |-> [s EXCEPT
                 !.ParticipantRegistry = Insert(s.ParticipantRegistry, <<cindex, new_count>>, sender),
                 !.ParticipantIndex = Insert(s.ParticipantIndex, <<cindex, sender>>, new_count),
                 !.ParticipantCount = new_count],
             events |-> <<>>]

\* faulty variant: witnesses are taken as soon as the meetups are assigned
witnessing_allowed_once_assigned(s) == s.CurrentPhase # REGISTERING

\* ensure!(<CurrentPhase>::get() == CeremonyPhaseType::WITNESSING, ..)
witnessing_allowed(s) == s.CurrentPhase = WITNESSING

\* faulty variant: the meetup the claim names is not looked at
witness_is_legit_any_meetup(witness, meetup_participants, cindex, meetup_idx) ==
    /\ Contains(meetup_participants, witness.public)
    /\ witness.claim.ceremony_index = cindex
    /\ verify_witness_signature(witness) = "Ok"

\* the four tests a witness passes to be counted, in the order of the loop
witness_is_legit(witness, meetup_participants, cindex, meetup_idx) ==
    /\ Contains(meetup_participants, witness.public)
    /\ witness.claim.ceremony_index = cindex
    /\ witness.claim.meetup_index = meetup_idx
    /\ verify_witness_signature(witness) = "Ok"

RECURSIVE witness_loop_first_count(_, _, _, _, _, _, _)
\* faulty variant: the count of the first legit witness is kept
witness_loop_first_count(witnesses, w, meetup_participants, cindex, meetup_idx, verified_witness_accounts, claim_n_participants) ==
    IF w > Len(witnesses)
    THEN [verified_witness_accounts |-> verified_witness_accounts,
          claim_n_participants |-> claim_n_participants]
    ELSE IF ~witness_is_legit(witnesses[w], meetup_participants, cindex, meetup_idx)
    THEN witness_loop_first_count(witnesses, w + 1, meetup_participants, cindex, meetup_idx,
                                  verified_witness_accounts, claim_n_participants)
    ELSE witness_loop_first_count(witnesses, w + 1, meetup_participants, cindex, meetup_idx,
                                  <<witnesses[w].public>> \o verified_witness_accounts,
                                  IF Len(verified_witness_accounts) = 0
                                  THEN witnesses[w].claim.number_of_participants_confirmed
                                  ELSE claim_n_participants)

RECURSIVE witness_loop(_, _, _, _, _, _, _)
\* the loop of register_witnesses over the witnesses from position w
witness_loop(witnesses, w, meetup_participants, cindex, meetup_idx, verified_witness_accounts, claim_n_participants) ==
    IF w > Len(witnesses)
    THEN [verified_witness_accounts |-> verified_witness_accounts,
          claim_n_participants |-> claim_n_participants]
    ELSE IF ~witness_is_legit(witnesses[w], meetup_participants, cindex, meetup_idx)
    THEN witness_loop(witnesses, w + 1, meetup_participants, cindex, meetup_idx,
                      verified_witness_accounts, claim_n_participants)
    ELSE witness_loop(witnesses, w + 1, meetup_participants, cindex, meetup_idx,
                      <<witnesses[w].public>> \o verified_witness_accounts,
                      witnesses[w].claim.number_of_participants_confirmed)

\* faulty variant: the sender is counted among its own peers
within_peer_count_with_sender(num_signed, num_registered) ==
    num_signed <= num_registered + 1

\* ensure!(num_signed <= num_registered, ..)
within_peer_count(num_signed, num_registered) == num_signed <= num_registered

\* faulty variant: an empty list of verified accounts is let through
none_verified_never(verified_witness_accounts) == FALSE

\* if verified_witness_accounts.len() == 0
none_verified(verified_witness_accounts) == Len(verified_witness_accounts) = 0

\* faulty variant: every submission takes a fresh index
witness_slot_always_new(s, cindex, sender) ==
    [idx |-> s.WitnessCount + 1, new_count |-> s.WitnessCount + 1]

\* faulty variant: a first submission is written at index 1
witness_slot_first(s, cindex, sender) ==
    [idx |-> IF Exists(s.WitnessIndex, <<cindex, sender>>)
             THEN witness_index(s, cindex, sender) ELSE 1,
     new_count |-> IF Exists(s.WitnessIndex, <<cindex, sender>>)
                   THEN s.WitnessCount ELSE s.WitnessCount + 1]

\* faulty variant: the count grows on a repeated submission too
witness_slot_always_counts(s, cindex, sender) ==
    [idx |-> IF Exists(s.WitnessIndex, <<cindex, sender>>)
             THEN witness_index(s, cindex, sender) ELSE s.WitnessCount + 1,
     new_count |-> s.WitnessCount + 1]

\* the index the sender's record is written at, and the WitnessCount left behind
witness_slot(s, cindex, sender) ==
    LET count == s.WitnessCount
    IN IF Exists(s.WitnessIndex, <<cindex, sender>>)
       THEN [idx |-> witness_index(s, cindex, sender), new_count |-> count]
       ELSE [idx |-> count + 1, new_count |-> count + 1]

\* faulty variant: the rewards are issued as soon as a record is written
witnesses_admitted_and_rewarded(s, sender, witnesses, meetup_idx, all_participants) ==
    LET cindex == s.CurrentCeremonyIndex
        meetup_participants == remove_item(all_participants, sender)
        loop == witness_loop(witnesses, 1, meetup_participants, cindex, meetup_idx, <<>>, 0)
        slot == witness_slot(s, cindex, sender)
    IN IF ~within_peer_count(Len(witnesses), Len(meetup_participants))
       THEN Err(s, "can't have more witnesses than other meetup participants")
       ELSE IF none_verified(loop.verified_witness_accounts)
       THEN Err(s, "no valid witnesses found")
       ELSE [res |-> "Ok",
             st |-> issue_rewards([s EXCEPT
                 !.WitnessCount = slot.new_count,
                 !.WitnessRegistry =
                     Insert(s.WitnessRegistry, <<cindex, slot.idx>>,
                            loop.verified_witness_accounts),
                 !.WitnessIndex = Insert(s.WitnessIndex, <<cindex, sender>>, slot.idx),
                 !.MeetupParticipantCountVote =
                     Insert(s.MeetupParticipantCountVote, <<cindex, sender>>,
                            loop.claim_n_participants)]).st,
             events |-> <<>>]

\* register_witnesses from the removal of the sender from its meetup on
witnesses_admitted(s, sender, witnesses, meetup_idx, all_participants) ==
    LET cindex == s.CurrentCeremonyIndex
        meetup_participants == remove_item(all_participants, sender)
        num_registered == Len(meetup_participants)
        num_signed == Len(witnesses)
        loop == witness_loop(witnesses, 1, meetup_participants, cindex, meetup_idx, <<>>, 0)
        slot == witness_slot(s, cindex, sender)
    IN IF ~within_peer_count(num_signed, num_registered)
       THEN Err(s, "can't have more witnesses than other meetup participants")
       ELSE IF none_verified(loop.verified_witness_accounts)
       THEN Err(s, "no valid witnesses found")
       ELSE [res |-> "Ok",
             st |-> [s EXCEPT
                 !.WitnessCount = slot.new_count,
                 !.WitnessRegistry =
                     Insert(s.WitnessRegistry, <<cindex, slot.idx>>,
                            loop.verified_witness_accounts),
                 !.WitnessIndex = Insert(s.WitnessIndex, <<cindex, sender>>, slot.idx),
                 !.MeetupParticipantCountVote =
                     Insert(s.MeetupParticipantCountVote, <<cindex, sender>>,
                            loop.claim_n_participants)],
             events |-> <<>>]

\* faulty variant: the single meetup is taken for the sender's, and the
\* sender is not looked for in it
register_witnesses_single_meetup(s, sender, witnesses) ==
    IF ~witnessing_allowed(s)
    THEN Err(s, "registering witnesses can only be done during WITNESSING phase")
    ELSE witnesses_admitted(s, sender, witnesses, SINGLE_MEETUP_INDEX,
             meetup_registry(s, s.CurrentCeremonyIndex, SINGLE_MEETUP_INDEX))

register_witnesses(s, sender, witnesses) ==
    LET cindex == s.CurrentCeremonyIndex
        meetup_idx == meetup_index(s, cindex, sender)
        all_participants == meetup_registry(s, cindex, meetup_idx)
    IN IF ~witnessing_allowed(s)
       THEN Err(s, "registering witnesses can only be done during WITNESSING phase")
       ELSE IF ~Contains(all_participants, sender)
       THEN Err(s, "origin not part of this meetup")
       ELSE witnesses_admitted(s, sender, witnesses, meetup_idx, all_participants)

(***************************************************************************)
(* The state machine.  Each call runs in a block of its own: call names    *)
(* the function last called, result is what it returned and events are     *)
(* the events it deposited.                                                *)
(***************************************************************************)
\* the genesis of the tests' ExtBuilder, with the ceremony index and the
\* balances the chain specification configures
GenesisEndowed(current_ceremony_index, balances) ==
    /\ ParticipantRegistry = EmptyMap
    /\ ParticipantIndex = EmptyMap
    /\ ParticipantCount = 0
    /\ MeetupRegistry = EmptyMap
    /\ MeetupIndex = EmptyMap
    /\ MeetupCount = 0
    /\ WitnessRegistry = EmptyMap
    /\ WitnessIndex = EmptyMap
    /\ WitnessCount = 0
    /\ MeetupParticipantCountVote = EmptyMap
    /\ CurrentCeremonyIndex = current_ceremony_index
    /\ CurrentPhase = REGISTERING
    /\ CeremonyReward = U64(REWARD)
    /\ CeremonyMaster = 1
    /\ FreeBalance = balances
    /\ EnclaveRegistry = EmptyMap
    /\ EnclaveCount = 0
    /\ EnclaveIndex = EmptyMap
    /\ LatestIpfsHash = EmptyMap
    /\ WorkerForShard = EmptyMap
    /\ events = <<>>
    /\ call = "genesis"
    /\ result = "Ok"
    /\ ceremonies_closed = 0

\* balances::GenesisConfig { balances: vec![], .. }
Genesis(current_ceremony_index) == GenesisEndowed(current_ceremony_index, EmptyMap)

\* what a call leaves behind
Commit(function, r) ==
    /\ call' = function
    /\ ParticipantRegistry' = r.st.ParticipantRegistry
    /\ ParticipantIndex' = r.st.ParticipantIndex
    /\ ParticipantCount' = r.st.ParticipantCount
    /\ MeetupRegistry' = r.st.MeetupRegistry
    /\ MeetupIndex' = r.st.MeetupIndex
    /\ MeetupCount' = r.st.MeetupCount
    /\ WitnessRegistry' = r.st.WitnessRegistry
    /\ WitnessIndex' = r.st.WitnessIndex
    /\ WitnessCount' = r.st.WitnessCount
    /\ MeetupParticipantCountVote' = r.st.MeetupParticipantCountVote
    /\ CurrentCeremonyIndex' = r.st.CurrentCeremonyIndex
    /\ CurrentPhase' = r.st.CurrentPhase
    /\ CeremonyReward' = r.st.CeremonyReward
    /\ CeremonyMaster' = r.st.CeremonyMaster
    /\ FreeBalance' = r.st.FreeBalance
    /\ UNCHANGED enclaves
    /\ events' = r.events
    /\ result' = r.res
    /\ ceremonies_closed' =
           IF r.st.CurrentCeremonyIndex # CurrentCeremonyIndex
           THEN ceremonies_closed + 1 ELSE ceremonies_closed

NextPhase(sender) == Commit("next_phase", next_phase(Storage, sender))

RegisterParticipant(sender) ==
    Commit("register_participant", register_participant(Storage, sender))

RegisterWitnesses(sender, witnesses) ==
    Commit("register_witnesses", register_witnesses(Storage, sender, witnesses))

(***************************************************************************)
(* The environment of Spec: every account may make every call; witnesses   *)
(* are the ones the tests' helper makes for the current ceremony.          *)
(***************************************************************************)
\* participant counts the claims carry
VoteValues == {3}

GenesisCeremonyIndices == {U32(1), U32Max}

\* sequences over S of length at most n
RECURSIVE SeqsUpTo(_, _)
SeqsUpTo(S, n) ==
    IF n = 0 THEN {<<>>}
    ELSE LET shorter == SeqsUpTo(S, n - 1)
         IN shorter \cup {Append(q, x) : q \in {r \in shorter : Len(r) = n - 1}, x \in S}

\* the witnesses the accounts in signers sign for the sender
SignedWitnesses(sender, signers) ==
    {meetup_claim_sign(sender, CurrentCeremonyIndex, SINGLE_MEETUP_INDEX, w, n) :
        w \in signers, n \in VoteValues}

\* batches of them whose signers ascend
AscendingBatches(sender, signers) ==
    {b \in SeqsUpTo(SignedWitnesses(sender, signers), MaxBatch) :
        \A i \in 1..(Len(b) - 1) : b[i].public < b[i + 1].public}

Batches(sender) == AscendingBatches(sender, Accounts)

Running == ceremonies_closed < MaxCeremonies

Init == \E c \in GenesisCeremonyIndices : Genesis(c)

Next ==
    \/ \E a \in Accounts : Running /\ NextPhase(a)
    \/ \E a \in Accounts : Running /\ RegisterParticipant(a)
    \/ \E a \in Accounts : \E b \in Batches(a) : Running /\ RegisterWitnesses(a, b)

Spec == Init /\ [][Next]_vars

(***************************************************************************)
(* The environment of SpecCrowd: more accounts than a meetup holds.  They  *)
(* register by ascending id when account 1 registers first and by          *)
(* descending id when the last account does, so that either the last or    *)
(* the first account is left without a meetup; the first three accounts    *)
(* and the last one submit and sign witnesses.                             *)
(***************************************************************************)
\* accounts beyond the MEETUP_MAX a meetup holds
ExtraRegistrants == 1

LastAccount == MEETUP_MAX + ExtraRegistrants

CrowdAccounts == 1..LastAccount

CrowdCallers == {1, 2, 3, LastAccount}

\* the account to register next
NextRegistrants ==
    IF ParticipantCount = 0 THEN {1, LastAccount}
    ELSE IF participant_registry(Storage, CurrentCeremonyIndex, 1) = 1
    THEN {ParticipantCount + 1} \cap CrowdAccounts
    ELSE {LastAccount - ParticipantCount} \cap CrowdAccounts

CrowdBatches(sender) == AscendingBatches(sender, CrowdCallers)

InitCrowd == Genesis(U32(1))

NextCrowd ==
    \/ \E a \in {1, 2} : Running /\ NextPhase(a)
    \/ \E a \in NextRegistrants : Running /\ RegisterParticipant(a)
    \/ \E a \in CrowdCallers : \E b \in CrowdBatches(a) : Running /\ RegisterWitnesses(a, b)

SpecCrowd == InitCrowd /\ [][NextCrowd]_vars

(***************************************************************************)
(* Properties.                                                             *)
(***************************************************************************)
\* everything a call can write
storage_vars == <<registries, CurrentCeremonyIndex, CurrentPhase, config, FreeBalance>>

\* (v + 1) modulo 2^32 on the limbs of v
Inc32(v) ==
    IF v = U32Max THEN <<0, 0>>
    ELSE IF v[1] = LimbBase - 1 THEN <<0, v[2] + 1>>
    ELSE <<v[1] + 1, v[2]>>

PhaseAfter(phase) ==
    CASE phase = REGISTERING -> ASSIGNING
      [] phase = ASSIGNING -> WITNESSING
      [] phase = WITNESSING -> REGISTERING

\* the step is a call of function f
Called(f) == call' = f

\* the step is a call of function f that returned Ok
Succeeded(f) == call' = f /\ result' = "Ok"

\* C1: a successful next_phase moves the phase one step along REGISTERING ->
\* ASSIGNING -> WITNESSING -> REGISTERING; the ceremony index changes only on
\* the step out of WITNESSING, to (old + 1) modulo 2^32; no other step changes
\* the phase or the ceremony index.
C1_PhaseCycle ==
    [][/\ Succeeded("next_phase") =>
              /\ CurrentPhase' = PhaseAfter(CurrentPhase)
              /\ CurrentCeremonyIndex' =
                     IF CurrentPhase = WITNESSING
                     THEN Inc32(CurrentCeremonyIndex) ELSE CurrentCeremonyIndex
       /\ ~Succeeded("next_phase") => UNCHANGED <<CurrentPhase, CurrentCeremonyIndex>>]_vars

\* three advances from the genesis index 2^32 - 1 have wrapped it to 0
C1_Witness ==
    /\ call = "next_phase" /\ result = "Ok"
    /\ CurrentPhase = REGISTERING
    /\ ceremonies_closed = 1
    /\ CurrentCeremonyIndex = <<0, 0>>

\* C2: next_phase by an account other than the CeremonyMaster returns an error
\* in every phase, writes nothing and deposits no event.
C2_NotMaster ==
    [][\A a \in Accounts : (a # CeremonyMaster /\ NextPhase(a)) =>
           /\ result' = "only the CeremonyMaster can call this function"
           /\ UNCHANGED storage_vars
           /\ events' = <<>>]_vars

\* the refusal in the WITNESSING phase, with witnesses registered
C2_Witness ==
    /\ call = "next_phase"
    /\ result = "only the CeremonyMaster can call this function"
    /\ CurrentPhase = WITNESSING
    /\ WitnessCount > 0

\* C3: register_participant outside REGISTERING and register_witnesses outside
\* WITNESSING return an error and write nothing.
C3_AdmissionPhase ==
    [][/\ (Called("register_participant") /\ CurrentPhase # REGISTERING) =>
              (result' # "Ok" /\ UNCHANGED storage_vars)
       /\ (Called("register_witnesses") /\ CurrentPhase # WITNESSING) =>
              (result' # "Ok" /\ UNCHANGED storage_vars)]_vars

\* a registration refused in the WITNESSING phase while a place is free
C3_Witness ==
    /\ call = "register_participant" /\ result # "Ok"
    /\ CurrentPhase = WITNESSING
    /\ ParticipantCount < Cardinality(Accounts)

\* C4: register_participant by an account already registered in the current
\* ceremony returns an error and leaves the participant registry, index and
\* count as they are; no account holds two positions of a ceremony.
C4_RegisterTwice ==
    /\ [][\A a \in Accounts :
             (Exists(ParticipantIndex, <<CurrentCeremonyIndex, a>>) /\ RegisterParticipant(a)) =>
                 /\ result' # "Ok"
                 /\ UNCHANGED <<ParticipantCount, ParticipantRegistry, ParticipantIndex>>]_vars
    /\ [](\A k1, k2 \in DOMAIN ParticipantRegistry :
             (k1[1] = k2[1] /\ ParticipantRegistry[k1] = ParticipantRegistry[k2]) => k1 = k2)

C4_Witness ==
    /\ call = "register_participant"
    /\ result = "already registered participant"
    /\ ParticipantCount = 2

\* C5: the k-th successful register_participant of a ceremony sets
\* ParticipantCount to k, ParticipantRegistry(c, k) to the caller and
\* ParticipantIndex(c, caller) to k and leaves the earlier rows alone; no row
\* has position 0.
C5_RegistrationOrder ==
    /\ [][\A a \in Accounts : (RegisterParticipant(a) /\ result' = "Ok") =>
             LET c == CurrentCeremonyIndex
                 k == Cardinality({key \in DOMAIN ParticipantRegistry : key[1] = c}) + 1
             IN /\ ParticipantCount' = k
                /\ DOMAIN ParticipantRegistry' = DOMAIN ParticipantRegistry \cup {<<c, k>>}
                /\ ParticipantRegistry'[<<c, k>>] = a
                /\ DOMAIN ParticipantIndex' = DOMAIN ParticipantIndex \cup {<<c, a>>}
                /\ ParticipantIndex'[<<c, a>>] = k
                /\ \A key \in DOMAIN ParticipantRegistry :
                       ParticipantRegistry'[key] = ParticipantRegistry[key]
                /\ \A key \in DOMAIN ParticipantIndex :
                       ParticipantIndex'[key] = ParticipantIndex[key]]_vars
    /\ [](/\ \A key \in DOMAIN ParticipantRegistry : key[2] >= 1
          /\ \A key \in DOMAIN ParticipantIndex : ParticipantIndex[key] >= 1)

\* the third registrant of a ceremony is not the account with the third id
C5_Witness ==
    /\ call = "register_participant" /\ result = "Ok"
    /\ ParticipantCount = 3
    /\ ParticipantRegistry[<<CurrentCeremonyIndex, 3>>] # 3

\* C6: the index maps are the inverses of their registries for the current
\* ceremony c: ParticipantIndex(c, a) = p, p >= 1, exactly when
\* ParticipantRegistry(c, p) = a, and a is listed in MeetupRegistry(c, m),
\* m >= 1, exactly when MeetupIndex(c, a) = m.
C6_IndexInverse ==
    LET c == CurrentCeremonyIndex
        s == Storage
    IN /\ \A a \in Accounts : \A p \in 1..(Cardinality(Accounts) + 1) :
              participant_index(s, c, a) = p <=> participant_registry(s, c, p) = a
       /\ \A a \in Accounts : \A m \in 1..(SINGLE_MEETUP_INDEX + 1) :
              Contains(meetup_registry(s, c, m), a) <=> meetup_index(s, c, a) = m

\* a meetup of three in the WITNESSING phase whose first member is not account 1
C6_Witness ==
    /\ CurrentPhase = WITNESSING
    /\ Len(meetup_registry(Storage, CurrentCeremonyIndex, SINGLE_MEETUP_INDEX)) = 3
    /\ participant_index(Storage, CurrentCeremonyIndex, 1) = 3

\* C7: each counter is the number of rows of its registry, and the rows are
\* those of the current ceremony at the indices 1..count.
C7_CountsMatchRows ==
    LET c == CurrentCeremonyIndex
    IN /\ DOMAIN ParticipantRegistry = {<<c, i>> : i \in 1..ParticipantCount}
       /\ DOMAIN MeetupRegistry = {<<c, i>> : i \in 1..MeetupCount}
       /\ DOMAIN WitnessRegistry = {<<c, i>> : i \in 1..WitnessCount}

\* three participants, one meetup and two witness records, the first holding
\* two witnesses and the second one
C7_Witness ==
    /\ ParticipantCount = 3 /\ MeetupCount = 1 /\ WitnessCount = 2
    /\ call = "register_witnesses" /\ result = "Ok"
    /\ Len(WitnessRegistry[<<CurrentCeremonyIndex, 1>>]) = 2
    /\ Len(WitnessRegistry[<<CurrentCeremonyIndex, 2>>]) = 1

\* C9: the step that closes ceremony c leaves no row keyed by c in any of the
\* seven maps, so that every read keyed by c yields the default, and leaves
\* the three counters at 0.
C9_PurgeComplete ==
    [][(Succeeded("next_phase") /\ CurrentPhase = WITNESSING) =>
          LET c == CurrentCeremonyIndex
              t == Storage'
          IN /\ \A m \in {ParticipantRegistry', ParticipantIndex', MeetupRegistry',
                          MeetupIndex', WitnessRegistry', WitnessIndex',
                          MeetupParticipantCountVote'} :
                    \A key \in DOMAIN m : key[1] # c
             /\ ParticipantCount' = 0 /\ MeetupCount' = 0 /\ WitnessCount' = 0
             /\ \A i \in 1..(Cardinality(Accounts) + 1) :
                    /\ participant_registry(t, c, i) = DefaultAccount
                    /\ meetup_registry(t, c, i) = <<>>
                    /\ witness_registry(t, c, i) = <<>>
             /\ \A a \in Accounts :
                    /\ participant_index(t, c, a) = 0
                    /\ meetup_index(t, c, a) = 0
                    /\ witness_index(t, c, a) = 0
                    /\ meetup_participant_count_vote(t, c, a) = 0]_vars

\* a ceremony is closed in which all three accounts earned the reward, so
\* that every map held rows of it
C9_Witness ==
    /\ call = "next_phase" /\ result = "Ok"
    /\ ceremonies_closed = 1
    /\ \A a \in Accounts : free_balance(Storage, a) = U64(REWARD)

\* C8: the step from REGISTERING to ASSIGNING makes MeetupRegistry(c, 1) the
\* first min(ParticipantCount, 12) registrants in registration order, gives
\* exactly those accounts MeetupIndex 1, the registrants beyond the 12th
\* keeping 0, and sets MeetupCount to 1.
C8_AssignMeetups ==
    [][(Succeeded("next_phase") /\ CurrentPhase = REGISTERING) =>
          LET c == CurrentCeremonyIndex
              n == Min(ParticipantCount, 12)
              first == [i \in 1..n |-> participant_registry(Storage, c, i)]
          IN /\ meetup_registry(Storage', c, 1) = first
             /\ Exists(MeetupRegistry', <<c, 1>>)
             /\ MeetupCount' = 1
             /\ \A a \in CrowdAccounts :
                    meetup_index(Storage', c, a) = IF Contains(first, a) THEN 1 ELSE 0]_vars

\* more accounts than a meetup holds registered by descending id: the meetup
\* is the twelve highest, and account 1, the last registrant, has no meetup
C8_Witness ==
    /\ call = "next_phase" /\ result = "Ok"
    /\ CurrentPhase = ASSIGNING
    /\ ParticipantCount = LastAccount
    /\ Len(meetup_registry(Storage, CurrentCeremonyIndex, 1)) = MEETUP_MAX
    /\ meetup_registry(Storage, CurrentCeremonyIndex, 1)[1] = LastAccount
    /\ participant_index(Storage, CurrentCeremonyIndex, 1) = LastAccount
    /\ meetup_index(Storage, CurrentCeremonyIndex, 1) = 0

\* account a is not listed in the meetup of the current ceremony
OutsideMeetup(a) ==
    ~Contains(meetup_registry(Storage, CurrentCeremonyIndex, SINGLE_MEETUP_INDEX), a)

\* C10: register_witnesses by an account that is not listed in the meetup of
\* the ceremony returns an error and writes no witness record, witness index
\* or vote, whatever the batch; no step changes the balance of an account
\* outside the meetup.
C10_OutsideMeetup ==
    /\ [](\A a \in CrowdCallers : OutsideMeetup(a) =>
             \A b \in CrowdBatches(a) :
                 LET r == register_witnesses(Storage, a, b)
                 IN r.res # "Ok" /\ r.st = Storage)
    /\ [][\A a \in CrowdAccounts :
             OutsideMeetup(a) => free_balance(Storage', a) = free_balance(Storage, a)]_vars

\* a registered account that was assigned no meetup has called
\* register_witnesses during WITNESSING and was refused
C10_Witness ==
    /\ call = "register_witnesses"
    /\ result = "origin not part of this meetup"
    /\ CurrentPhase = WITNESSING
    /\ \E a \in CrowdCallers :
          /\ Exists(ParticipantIndex, <<CurrentCeremonyIndex, a>>)
          /\ OutsideMeetup(a)

(***************************************************************************)
(* The environment of SpecBatch: the three accounts register by ascending  *)
(* id, the master advances the phase, and accounts 1 and 2 submit batches  *)
(* in which a witness is either one the tests' helper makes, signed by any *)
(* of the three accounts, or one with a single defect.                     *)
(***************************************************************************)
BatchVoteValues == {3, 4}

DefectVoteValues == {5}

Submitters == {1, 2}

\* a claim of the sender signed by w that names another ceremony
wrong_ceremony_index(sender, w, n) ==
    meetup_claim_sign(sender, Inc32(CurrentCeremonyIndex), SINGLE_MEETUP_INDEX, w, n)

\* a claim of the sender signed by w that names another meetup
wrong_meetup_index(sender, w, n) ==
    meetup_claim_sign(sender, CurrentCeremonyIndex, SINGLE_MEETUP_INDEX + 1, w, n)

\* witness_wrong_signature of the tests: signed by the claimant, attributed to w
witness_wrong_signature(sender, w, n) ==
    LET claim == ClaimOfAttendance(sender, CurrentCeremonyIndex, SINGLE_MEETUP_INDEX, n)
    IN Witness(claim, sign(sender, encode(claim)), w)

\* a claim whose count was changed after w signed it
claim_altered(sender, w, n) ==
    LET claim == ClaimOfAttendance(sender, CurrentCeremonyIndex, SINGLE_MEETUP_INDEX, n)
    IN Witness([claim EXCEPT !.number_of_participants_confirmed = n + 1],
               sign(w, encode(claim)), w)

\* a claim of w's own attendance, signed by w
self_signed(w, n) ==
    meetup_claim_sign(w, CurrentCeremonyIndex, SINGLE_MEETUP_INDEX, w, n)

DefectiveWitnesses(sender) ==
    UNION {{wrong_ceremony_index(sender, w, n), wrong_meetup_index(sender, w, n),
            witness_wrong_signature(sender, w, n), claim_altered(sender, w, n),
            self_signed(w, n)} :
               w \in Submitters \ {sender}, n \in DefectVoteValues}

HelperWitnesses(sender) ==
    {meetup_claim_sign(sender, CurrentCeremonyIndex, SINGLE_MEETUP_INDEX, w, n) :
        w \in Accounts, n \in BatchVoteValues}

AnyBatches(sender) ==
    SeqsUpTo(HelperWitnesses(sender) \cup DefectiveWitnesses(sender), MaxBatch)

InitBatch == Genesis(U32(1))

NextBatch ==
    \/ Running /\ NextPhase(CeremonyMaster)
    \/ \E a \in {ParticipantCount + 1} \cap Accounts : Running /\ RegisterParticipant(a)
    \/ \E a \in Submitters : \E b \in AnyBatches(a) : Running /\ RegisterWitnesses(a, b)

SpecBatch == InitBatch /\ [][NextBatch]_vars

\* the members of the sender's meetup other than the sender
Peers(sender) ==
    LET c == CurrentCeremonyIndex
    IN IF Exists(MeetupIndex, <<c, sender>>)
       THEN {x \in Accounts \ {sender} :
                Exists(MeetupIndex, <<c, x>>) /\ MeetupIndex[<<c, x>>] = MeetupIndex[<<c, sender>>]}
       ELSE {}

\* C11: register_witnesses with more witnesses than the caller has meetup
\* peers returns an error and writes nothing, whatever the witnesses are.
C11_TooManyWitnesses ==
    \A a \in Submitters : \A b \in AnyBatches(a) :
        Len(b) > Cardinality(Peers(a)) =>
            LET r == register_witnesses(Storage, a, b)
            IN r.res # "Ok" /\ r.st = Storage

\* in a meetup of two a batch of two was refused for its size
C11_Witness ==
    /\ call = "register_witnesses"
    /\ result = "can't have more witnesses than other meetup participants"
    /\ CurrentPhase = WITNESSING
    /\ Len(meetup_registry(Storage, CurrentCeremonyIndex, SINGLE_MEETUP_INDEX)) = 2

\* the witness passes the four filters for the sender
Passes(sender, w) ==
    /\ w.public \in Peers(sender)
    /\ w.claim.ceremony_index = CurrentCeremonyIndex
    /\ w.claim.meetup_index = meetup_index(Storage, CurrentCeremonyIndex, sender)
    /\ w.signature = sign(w.public, encode(w.claim))
    /\ w.public # w.claim.claimant_public

\* the witness record of account a in storage s
RecordOf(s, a) ==
    witness_registry(s, s.CurrentCeremonyIndex, witness_index(s, s.CurrentCeremonyIndex, a))

\* C12: every account a successful register_witnesses stores in the record of
\* claimant a is the signer of a witness of the batch for which: the signer
\* is a member of a's meetup other than a, the claim names the current
\* ceremony and a's meetup, the signature is the signer's over the claim, and
\* the signer is not the claim's claimant; every stored record holds peers
\* of its claimant only.
C12_StoredWereAccepted ==
    /\ \A a \in Submitters : \A b \in AnyBatches(a) :
           LET r == register_witnesses(Storage, a, b)
               record == RecordOf(r.st, a)
           IN r.res = "Ok" =>
                  \A k \in 1..Len(record) :
                      \E i \in 1..Len(b) : b[i].public = record[k] /\ Passes(a, b[i])
    /\ \A a \in Accounts : \A k \in 1..Len(RecordOf(Storage, a)) :
           RecordOf(Storage, a)[k] \in Peers(a)

\* a record of one account is left by a batch of two in which a peer signed
\* a claim of its own attendance
C12_Witness ==
    /\ call = "register_witnesses" /\ result = "Ok"
    /\ \E a \in Submitters : \E b \in AnyBatches(a) :
          /\ Len(b) = 2
          /\ b[2] \in {self_signed(w, n) : w \in Peers(a), n \in DefectVoteValues}
          /\ Len(RecordOf(Storage, a)) = 1
          /\ register_witnesses(Storage, a, b) = [res |-> "Ok", st |-> Storage, events |-> <<>>]

\* the signers of the witnesses of the batch that pass the filters, last first
PassingSigners(sender, b) ==
    LET passing == SelectSeq(b, LAMBDA w : Passes(sender, w))
    IN [k \in 1..Len(passing) |-> passing[Len(passing) + 1 - k].public]

\* the batch gets past the checks of the phase, of the sender's meetup and
\* of the batch size
Admitted(sender, b) ==
    /\ CurrentPhase = WITNESSING
    /\ Exists(MeetupIndex, <<CurrentCeremonyIndex, sender>>)
    /\ Len(b) <= Cardinality(Peers(sender))

\* C13: an admitted batch succeeds exactly when one of its witnesses passes
\* the four filters, and the record stored is made of the signers of the
\* witnesses that pass and of nothing else.
C13_SilentSkip ==
    \A a \in Submitters : \A b \in AnyBatches(a) :
        Admitted(a, b) =>
            LET r == register_witnesses(Storage, a, b)
            IN /\ r.res = "Ok" <=> \E i \in 1..Len(b) : Passes(a, b[i])
               /\ r.res = "Ok" => RecordOf(r.st, a) = PassingSigners(a, b)

\* a record of one account is left by a batch of two whose other witness
\* names another meetup
C13_Witness ==
    /\ call = "register_witnesses" /\ result = "Ok"
    /\ \E a \in Submitters : \E b \in AnyBatches(a) :
          /\ Len(b) = 2
          /\ b[1] \in {wrong_meetup_index(a, w, n) : w \in Peers(a), n \in DefectVoteValues}
          /\ Passes(a, b[2])
          /\ Len(RecordOf(Storage, a)) = 1
          /\ register_witnesses(Storage, a, b) = [res |-> "Ok", st |-> Storage, events |-> <<>>]

\* C14: a batch none of whose witnesses passes the filters, the empty batch
\* included, returns an error and writes nothing, so that WitnessCount and the
\* caller's earlier record and vote stay; no stored witness record is empty.
C14_NoValidWitnesses ==
    /\ \A a \in Submitters : \A b \in AnyBatches(a) :
           (\A i \in 1..Len(b) : ~Passes(a, b[i])) =>
               LET r == register_witnesses(Storage, a, b)
               IN r.res # "Ok" /\ r.st = Storage
    /\ \A key \in DOMAIN WitnessRegistry : Len(WitnessRegistry[key]) > 0

\* a batch without a valid witness was refused when both submitters had a
\* record and a vote
C14_Witness ==
    /\ call = "register_witnesses"
    /\ result = "no valid witnesses found"
    /\ WitnessCount = Cardinality(Submitters)
    /\ \A a \in Submitters :
          /\ Len(RecordOf(Storage, a)) > 0
          /\ meetup_participant_count_vote(Storage, CurrentCeremonyIndex, a) > 0

\* the count the last witness of the batch that passes the filters carries
LastPassingCount(sender, b) ==
    LET passing == SelectSeq(b, LAMBDA w : Passes(sender, w))
    IN passing[Len(passing)].claim.number_of_participants_confirmed

\* the rows of map m other than the one at key are in n as they are in m
OtherRowsKept(m, n, key) ==
    \A k \in (DOMAIN m \cup DOMAIN n) \ {key} :
        k \in DOMAIN m /\ k \in DOMAIN n /\ n[k] = m[k]

\* C15: a successful register_witnesses by an account that has a witness
\* record leaves WitnessCount and the WitnessIndex map as they are, replaces
\* the record and the vote of the caller by those of the new batch and
\* leaves every other record and vote alone; the first successful
\* register_witnesses of an account adds 1 to WitnessCount.
C15_OverwriteInPlace ==
    \A a \in Submitters : \A b \in AnyBatches(a) :
        LET c == CurrentCeremonyIndex
            r == register_witnesses(Storage, a, b)
            w == witness_index(r.st, c, a)
        IN r.res = "Ok" =>
               /\ r.st.WitnessCount =
                      IF Exists(WitnessIndex, <<c, a>>) THEN WitnessCount ELSE WitnessCount + 1
               /\ Exists(WitnessIndex, <<c, a>>) => r.st.WitnessIndex = WitnessIndex
               /\ w >= 1
               /\ RecordOf(r.st, a) = PassingSigners(a, b)
               /\ meetup_participant_count_vote(r.st, c, a) = LastPassingCount(a, b)
               /\ OtherRowsKept(WitnessRegistry, r.st.WitnessRegistry, <<c, w>>)
               /\ OtherRowsKept(WitnessIndex, r.st.WitnessIndex, <<c, a>>)
               /\ OtherRowsKept(MeetupParticipantCountVote,
                                r.st.MeetupParticipantCountVote, <<c, a>>)

\* both submitters hold a record, and one has a batch at hand that replaces
\* its witnesses and its vote by others
C15_Witness ==
    /\ call = "register_witnesses" /\ result = "Ok"
    /\ WitnessCount = Cardinality(Submitters)
    /\ \E a \in Submitters : \E b \in AnyBatches(a) :
          LET c == CurrentCeremonyIndex
              r == register_witnesses(Storage, a, b)
          IN /\ r.res = "Ok"
             /\ Exists(WitnessIndex, <<c, a>>)
             /\ RecordOf(r.st, a) # RecordOf(Storage, a)
             /\ meetup_participant_count_vote(r.st, c, a) #
                    meetup_participant_count_vote(Storage, c, a)

\* C16: after a successful register_witnesses the caller's vote is the count
\* carried by the last witness of the batch, in batch order, that passed the
\* filters; no vote of another account is written by the call, a failed call
\* writes no vote, and no other call adds or alters a vote.
C16_VoteOfLastAccepted ==
    /\ [](\A a \in Submitters : \A b \in AnyBatches(a) :
             LET c == CurrentCeremonyIndex
                 r == register_witnesses(Storage, a, b)
             IN /\ r.res = "Ok" =>
                       /\ meetup_participant_count_vote(r.st, c, a) = LastPassingCount(a, b)
                       /\ OtherRowsKept(MeetupParticipantCountVote,
                                        r.st.MeetupParticipantCountVote, <<c, a>>)
                /\ r.res # "Ok" =>
                       r.st.MeetupParticipantCountVote = MeetupParticipantCountVote)
    /\ [][~Called("register_witnesses") =>
             \A k \in DOMAIN MeetupParticipantCountVote' :
                 /\ k \in DOMAIN MeetupParticipantCountVote
                 /\ MeetupParticipantCountVote'[k] = MeetupParticipantCountVote[k]]_vars

\* a vote of 3 is left by a batch of two accepted witnesses of which the
\* first carries 4 and the last 3
C16_Witness ==
    /\ call = "register_witnesses" /\ result = "Ok"
    /\ \E a \in Submitters : \E b \in AnyBatches(a) :
          /\ Len(b) = 2
          /\ Passes(a, b[1]) /\ Passes(a, b[2])
          /\ b[1].claim.number_of_participants_confirmed = 4
          /\ b[2].claim.number_of_participants_confirmed = 3
          /\ meetup_participant_count_vote(Storage, CurrentCeremonyIndex, a) = 3
          /\ register_witnesses(Storage, a, b) = [res |-> "Ok", st |-> Storage, events |-> <<>>]

\* C17: no account appears twice in a stored witness record, whatever batches
\* were submitted.
C17_DistinctWitnesses ==
    \A key \in DOMAIN WitnessRegistry :
        \A i, j \in 1..Len(WitnessRegistry[key]) :
            WitnessRegistry[key][i] = WitnessRegistry[key][j] => i = j

\* the accounts that hold witness index w in the current ceremony
ClaimantsAt(w) ==
    {a \in Accounts : /\ Exists(WitnessIndex, <<CurrentCeremonyIndex, a>>)
                      /\ WitnessIndex[<<CurrentCeremonyIndex, a>>] = w}

\* C18: distinct claimants of the current ceremony hold distinct witness
\* indices, every index in 1..WitnessCount is held by exactly one claimant
\* and has a record, and an account without a record reads WitnessIndex 0.
C18_OneRecordPerClaimant ==
    LET c == CurrentCeremonyIndex
    IN /\ \A k \in DOMAIN WitnessIndex : k[1] = c /\ k[2] \in Accounts
       /\ \A a1, a2 \in Accounts :
              (/\ Exists(WitnessIndex, <<c, a1>>) /\ Exists(WitnessIndex, <<c, a2>>)
               /\ WitnessIndex[<<c, a1>>] = WitnessIndex[<<c, a2>>]) => a1 = a2
       /\ \A w \in 1..WitnessCount :
              Cardinality(ClaimantsAt(w)) = 1 /\ Exists(WitnessRegistry, <<c, w>>)
       /\ \A a \in Accounts :
              \/ witness_index(Storage, c, a) \in 1..WitnessCount
              \/ witness_index(Storage, c, a) = 0 /\ ~Exists(WitnessIndex, <<c, a>>)

\* the three accounts hold records, the master's being the last one made
\* and holding both its peers
C18_Witness ==
    /\ call = "register_witnesses" /\ result = "Ok"
    /\ WitnessCount = Cardinality(Accounts)
    /\ witness_index(Storage, CurrentCeremonyIndex, CeremonyMaster) = Cardinality(Accounts)
    /\ Len(RecordOf(Storage, CeremonyMaster)) = Cardinality(Accounts) - 1

(***************************************************************************)
(* The environment of SpecBallot: the voters register by ascending id and  *)
(* the master advances the phase; in WITNESSING each member, once the      *)
(* members before it have a record, submits one witness the tests' helper  *)
(* makes, signed by the master or, for the master, by the second account.  *)
(***************************************************************************)
\* accounts that register for the ceremony the ballot is taken in
MaxVoters == 6

Voters == 1..MaxVoters

TallyVoteValues == {0, 4, 5, 6}

\* the account that signs for the claimant, as in the tests of the ballot
WitnessOf(claimant) == IF claimant = CeremonyMaster THEN 2 ELSE CeremonyMaster

\* gets_witnessed_by(claimant, vec!(witness), n)
gets_witnessed_by(claimant, n) ==
    <<meetup_claim_sign(claimant, CurrentCeremonyIndex, SINGLE_MEETUP_INDEX,
                        WitnessOf(claimant), n)>>

\* the members before the claimant have submitted
InTurn(claimant) ==
    \A a \in 1..(claimant - 1) : Exists(WitnessIndex, <<CurrentCeremonyIndex, a>>)

InitBallot == Genesis(U32(1))

NextBallot ==
    \/ Running /\ NextPhase(CeremonyMaster)
    \/ \E a \in {ParticipantCount + 1} \cap Voters : Running /\ RegisterParticipant(a)
    \/ \E a \in Voters : \E n \in TallyVoteValues :
           Running /\ InTurn(a) /\ RegisterWitnesses(a, gets_witnessed_by(a, n))

SpecBallot == InitBallot /\ [][NextBallot]_vars

\* the member list of the single meetup of the current ceremony
Members == meetup_registry(Storage, CurrentCeremonyIndex, SINGLE_MEETUP_INDEX)

\* the vote of the i-th member
VoteAt(i) == meetup_participant_count_vote(Storage, CurrentCeremonyIndex, Members[i])

\* the non-zero vote values of the members
VotedValues == {VoteAt(i) : i \in 1..Len(Members)} \ {0}

\* the number of members that vote v
Tally(v) == Cardinality({i \in 1..Len(Members) : VoteAt(i) = v})

\* the values no other value has more votes than
TopValues == {v \in VotedValues : \A u \in VotedValues : Tally(u) <= Tally(v)}

\* the place in the member list of the first member that votes v
FirstSeen(v) == CHOOSE i \in 1..Len(Members) : VoteAt(i) = v /\ \A j \in 1..(i - 1) : VoteAt(j) # v

\* C19: the ballot counts the non-zero votes of the members of the meetup;
\* it yields no decision when there is none or when the most-voted value has
\* fewer than 3 votes; otherwise it yields a most-voted value and the number
\* of members that vote it.
C19_Ballot ==
    LET r == ballot_meetup_n_votes(Storage, SINGLE_MEETUP_INDEX)
    IN IF VotedValues = {} \/ \E v \in TopValues : Tally(v) < 3
       THEN ~r.some
       ELSE r.some /\ r.n \in TopValues /\ r.c = Tally(r.n)

\* six members of whom three vote one value, two another and one 0
C19_Witness ==
    /\ call = "register_witnesses" /\ result = "Ok"
    /\ Len(Members) = 6
    /\ \E v \in VotedValues : \E u \in VotedValues : Tally(v) = 3 /\ Tally(u) = 2
    /\ Tally(0) = 1
    /\ \A i \in 1..Len(Members) : Exists(MeetupParticipantCountVote, <<CurrentCeremonyIndex, Members[i]>>)
    /\ ballot_meetup_n_votes(Storage, SINGLE_MEETUP_INDEX).some

\* several values tie for the highest tally, with at least 3 votes each
TopTie == Cardinality(TopValues) >= 2 /\ \A v \in TopValues : Tally(v) >= 3

\* C20 as claimed: when two values tie for the highest tally, each with at
\* least 3 votes, the ballot yields the one that is observed first in the
\* member list.
C20_FirstObservedWins ==
    LET r == ballot_meetup_n_votes(Storage, SINGLE_MEETUP_INDEX)
    IN TopTie =>
           /\ r.some /\ r.n \in TopValues
           /\ \A u \in TopValues : FirstSeen(r.n) <= FirstSeen(u)

\* C20: when two values tie for the highest tally, each with at least 3
\* votes, the ballot yields the one whose first vote comes later in the
\* member list.
C20_LastObservedWins ==
    LET r == ballot_meetup_n_votes(Storage, SINGLE_MEETUP_INDEX)
    IN TopTie =>
           /\ r.some /\ r.n \in TopValues
           /\ \A u \in TopValues : FirstSeen(u) <= FirstSeen(r.n)

\* six members, three votes each for two values, the first member's value
\* not being the one the ballot yields
C20_Witness ==
    /\ call = "register_witnesses" /\ result = "Ok"
    /\ Len(Members) = 6
    /\ TopTie
    /\ ballot_meetup_n_votes(Storage, SINGLE_MEETUP_INDEX).some
    /\ ballot_meetup_n_votes(Storage, SINGLE_MEETUP_INDEX).n # VoteAt(1)

(***************************************************************************)
(* The environment of SpecReward: the accounts register by ascending id,   *)
(* the master advances the phase after any number of registrations; in     *)
(* WITNESSING each member, once the members before it have a record,       *)
(* submits what the tests' helper makes of a list of signing peers, a peer *)
(* possibly signing twice.  The last account may vote 4 instead of 3.      *)
(***************************************************************************)
\* accounts that register for the ceremony the rewards are issued in
RewardMembers == 4

Rewardees == 1..RewardMembers

\* the participant counts an account may vote
RewardVotes(claimant) == IF claimant = RewardMembers THEN {3, 4} ELSE {3}

\* lists of peers of the claimant, by non-descending id
SignerLists(claimant) ==
    {q \in SeqsUpTo(Rewardees \ {claimant}, MaxBatch) :
        Len(q) > 0 /\ \A i \in 1..(Len(q) - 1) : q[i] <= q[i + 1]}

\* the witnesses gets_witnessed_by(claimant, witnesses, n) submits
witnesses_signed_by(claimant, witnesses, n) ==
    [i \in 1..Len(witnesses) |->
        meetup_claim_sign(claimant, CurrentCeremonyIndex, SINGLE_MEETUP_INDEX, witnesses[i], n)]

InitReward == Genesis(U32(1))

NextReward ==
    \/ Running /\ NextPhase(CeremonyMaster)
    \/ \E a \in {ParticipantCount + 1} \cap Rewardees : Running /\ RegisterParticipant(a)
    \/ \E a \in Rewardees : \E q \in SignerLists(a) : \E n \in RewardVotes(a) :
           Running /\ InTurn(a) /\ RegisterWitnesses(a, witnesses_signed_by(a, q, n))

SpecReward == InitReward /\ [][NextReward]_vars

\* the accounts whose witness p's record holds
WitnessSet(p) == {RecordOf(Storage, p)[i] : i \in 1..Len(RecordOf(Storage, p))}

\* the witnesses of p whose own record holds p
Reciprocated(p) == {w \in WitnessSet(p) : p \in WitnessSet(w)}

\* the members of the single meetup
MemberSet == {Members[i] : i \in 1..Len(Members)}

\* the three conditions of a reward under the ballot result (n_confirmed, n_honest)
Deserves(p, n_confirmed, n_honest) ==
    /\ p \in MemberSet
    /\ meetup_participant_count_vote(Storage, CurrentCeremonyIndex, p) = n_confirmed
    /\ WitnessSet(p) # {}
    /\ Cardinality(WitnessSet(p)) >= n_honest - 1
    /\ Cardinality(Reciprocated(p)) >= n_honest - 1

\* the step of next_phase that leaves WITNESSING
ClosesCeremony == Succeeded("next_phase") /\ CurrentPhase = WITNESSING

\* C21 as claimed: when the ceremony closes with the ballot result
\* (n_confirmed, n_honest), the free balance of an account grows by
\* CeremonyReward if it is a member that voted n_confirmed, has at least
\* n_honest - 1 witnesses, at least one, and is held as a witness by at least
\* n_honest - 1 of them; the balance of every other account is unchanged.
C21_RewardRule ==
    [][ClosesCeremony /\ ballot_meetup_n_votes(Storage, SINGLE_MEETUP_INDEX).some =>
        LET ballot == ballot_meetup_n_votes(Storage, SINGLE_MEETUP_INDEX)
        IN \A a \in Rewardees :
               free_balance(Storage, a)' =
                   IF Deserves(a, ballot.n, ballot.c)
                   THEN checked_add(free_balance(Storage, a), CeremonyReward).val
                   ELSE free_balance(Storage, a)]_vars

\* C22: when fewer than 3 members of the meetup share a non-zero vote, for
\* instance with the votes 5, 5, 4, 4, 6, 6 or with fewer than 3 members, the
\* ceremony closes and no free balance changes.
C22_NoDependableBallot ==
    [][ClosesCeremony /\ (\A v \in VotedValues : Tally(v) < 3) =>
        FreeBalance' = FreeBalance]_vars

\* six members vote three values twice each and the master can close the
\* ceremony, which leaves the balances as they are
C22_Witness ==
    /\ CurrentPhase = WITNESSING
    /\ Len(Members) = 6
    /\ Cardinality(VotedValues) = 3
    /\ \A v \in VotedValues : Tally(v) = 2
    /\ next_phase(Storage, CeremonyMaster).res = "Ok"
    /\ next_phase(Storage, CeremonyMaster).st.CurrentPhase = REGISTERING
    /\ next_phase(Storage, CeremonyMaster).st.FreeBalance = FreeBalance

\* C23: a free balance changes only in the step of next_phase that leaves
\* WITNESSING for REGISTERING; no other call and no other phase change
\* writes a balance.
C23_BalancesOnlyAtClose ==
    [][FreeBalance' # FreeBalance =>
        /\ ClosesCeremony
        /\ CurrentPhase' = REGISTERING]_vars

\* the master has closed a ceremony and an account holds a reward
C23_Witness ==
    /\ call = "next_phase" /\ result = "Ok"
    /\ CurrentPhase = REGISTERING
    /\ ceremonies_closed = 1
    /\ \E a \in Accounts : free_balance(Storage, a) = CeremonyReward

\* the three dispatchable calls
Calls == {"next_phase", "register_participant", "register_witnesses"}

\* C24: when next_phase, register_participant or register_witnesses returns
\* an error, the phase, the ceremony index, every registry, counter and
\* vote and the balances are what they were before the call, and the call
\* has deposited no event.
C24_ErrorsLeaveNoTrace ==
    [][call' \in Calls /\ result' # "Ok" =>
        /\ UNCHANGED storage_vars
        /\ events' = <<>>]_vars

\* a batch was refused for want of a valid witness while a record of the
\* ceremony is on file
C24_Witness ==
    /\ call = "register_witnesses"
    /\ result = "no valid witnesses found"
    /\ CurrentPhase = WITNESSING
    /\ WitnessCount > 0

\* C25 as claimed: every call of next_phase, register_participant or
\* register_witnesses that succeeds deposits exactly one event.
C25_OneEventPerSuccess ==
    call \in Calls /\ result = "Ok" => Len(events) = 1

\* C26: a next_phase that succeeds deposits exactly one event,
\* PhaseChangedTo, whose payload is the phase just entered, the successor of
\* the phase left in the cycle REGISTERING, ASSIGNING, WITNESSING; any other
\* step deposits no such event and leaves the phase, so that the payloads
\* run ASSIGNING, WITNESSING, REGISTERING, ASSIGNING, .. without a skip or
\* a repeat.
C26_PhaseChangedEvents ==
    [][IF Succeeded("next_phase")
       THEN /\ CurrentPhase' = PhaseAfter(CurrentPhase)
            /\ events' = <<[event |-> "PhaseChangedTo", phase |-> CurrentPhase']>>
       ELSE /\ CurrentPhase' = CurrentPhase
            /\ \A i \in 1..Len(events') : events'[i].event # "PhaseChangedTo"]_vars

\* the third advance of a ceremony has announced REGISTERING
C26_Witness ==
    /\ call = "next_phase" /\ result = "Ok"
    /\ ceremonies_closed = 1
    /\ events = <<[event |-> "PhaseChangedTo", phase |-> REGISTERING]>>
    /\ CurrentPhase = REGISTERING

(***************************************************************************)
(* The module substraTEERegistry.  Its functions read and return the       *)
(* module's storage as one value; the counts stay far below 2^64, so the   *)
(* overflow of EnclaveCount is left out.  A remote-attestation certificate *)
(* is the vector of the fields its verification extracts; the host call    *)
(* that verifies it is outside the runtime.                                *)
(***************************************************************************)
MAX_RA_REPORT_LEN == 4096

MAX_URL_LEN == 256

Registry ==
    [EnclaveRegistry |-> EnclaveRegistry,
     EnclaveCount |-> EnclaveCount,
     EnclaveIndex |-> EnclaveIndex,
     LatestIpfsHash |-> LatestIpfsHash,
     WorkerForShard |-> WorkerForShard]

\* StorageMap::remove
Remove(m, k) == [x \in DOMAIN m \ {k} |-> m[x]]

\* Enclave::default()
DefaultEnclave == [pubkey |-> DefaultAccount, mr_enclave |-> 0, timestamp |-> 0, url |-> <<>>]

\* the getters decl_storage! generates
enclave(r, i) == Get(r.EnclaveRegistry, i, DefaultEnclave)
enclave_index(r, a) == Get(r.EnclaveIndex, a, 0)

\* T::AccountId::decode of the 32 bytes of a key
decode_account(bytes) == CHOOSE a \in 0..255 : encode_account(a) = bytes

\* the host call: Some(report) for a certificate that verifies, None otherwise
verify_ra_report(cert_der, signer) ==
    IF Len(cert_der) = 3
    THEN [some |-> TRUE,
          rep |-> [pubkey |-> cert_der[1], mr_enclave |-> cert_der[2], timestamp |-> cert_der[3]]]
    ELSE [some |-> FALSE]

register_verified_enclave(r, sender, report, url) ==
    LET new_enclave == [pubkey |-> sender, mr_enclave |-> report.mr_enclave,
                        timestamp |-> report.timestamp, url |-> url]
        registered == Exists(r.EnclaveIndex, sender)
        enclaves_count == r.EnclaveCount + 1
        enclave_idx == IF registered THEN enclave_index(r, sender) ELSE enclaves_count
    IN [r EXCEPT
           !.EnclaveIndex = IF registered THEN @ ELSE Insert(@, sender, enclaves_count),
           !.EnclaveCount = IF registered THEN @ ELSE enclaves_count,
           !.EnclaveRegistry = Insert(@, enclave_idx, new_enclave)]

\* faulty variant: the index of the entry that is moved is not rewritten
swap_and_pop_keeping_index(r, index_to_remove, new_enclaves_count) ==
    LET last_enclave == enclave(r, new_enclaves_count)
        swapped == IF index_to_remove # new_enclaves_count
                   THEN [r EXCEPT !.EnclaveRegistry = Insert(@, index_to_remove, last_enclave)]
                   ELSE r
    IN [swapped EXCEPT !.EnclaveRegistry = Remove(@, new_enclaves_count)]

\* new_enclaves_count is the index of the last entry
swap_and_pop(r, index_to_remove, new_enclaves_count) ==
    LET last_enclave == enclave(r, new_enclaves_count)
        swapped == IF index_to_remove # new_enclaves_count
                   THEN [r EXCEPT
                            !.EnclaveRegistry = Insert(@, index_to_remove, last_enclave),
                            !.EnclaveIndex = Insert(@, last_enclave.pubkey, index_to_remove)]
                   ELSE r
    IN [swapped EXCEPT !.EnclaveRegistry = Remove(@, new_enclaves_count)]

\* the Result and the storage left behind; take() precedes checked_sub
remove_enclave(r, sender) ==
    LET index_to_remove == enclave_index(r, sender)
        taken == [r EXCEPT !.EnclaveIndex = Remove(@, sender)]
        enclaves_count == r.EnclaveCount
        new_enclaves_count == enclaves_count - 1
    IN IF ~Exists(r.EnclaveIndex, sender)
       THEN [res |-> "Trying to remove an enclave that doesn't exist.", st |-> r]
       ELSE IF enclaves_count = 0
       THEN [res |-> "Underflow removing an enclave from the registry", st |-> taken]
       ELSE [res |-> "Ok",
             st |-> [swap_and_pop(taken, index_to_remove, new_enclaves_count + 1)
                        EXCEPT !.EnclaveCount = new_enclaves_count]]

register_enclave(r, sender, ra_report, worker_url) ==
    LET verified == verify_ra_report(ra_report, encode_account(sender))
    IN IF ~(Len(ra_report) <= MAX_RA_REPORT_LEN) THEN Err(r, "RA report too long")
       ELSE IF ~(Len(worker_url) <= MAX_URL_LEN) THEN Err(r, "URL too long")
       ELSE IF ~verified.some THEN Err(r, "Verifying RA report failed... returning")
       ELSE IF sender # decode_account(verified.rep.pubkey)
       THEN Err(r, "extrinsic must be signed by attested enclave key")
       ELSE [res |-> "Ok",
             st |-> register_verified_enclave(r, sender, verified.rep, worker_url),
             events |-> <<[event |-> "AddedEnclave", who |-> sender, url |-> worker_url]>>]

unregister_enclave(r, sender) ==
    LET removed == remove_enclave(r, sender)
    IN IF removed.res # "Ok"
       THEN [res |-> removed.res, st |-> removed.st, events |-> <<>>]
       ELSE [res |-> "Ok", st |-> removed.st,
             events |-> <<[event |-> "RemovedEnclave", who |-> sender]>>]

call_worker(r, sender, request) ==
    [res |-> "Ok", st |-> r, events |-> <<[event |-> "Forwarded", request |-> request]>>]

\* faulty variant: the caller is not looked up in EnclaveIndex
confirm_call_unchecked(r, sender, shard, call_hash, ipfs_hash) ==
    LET sender_index == enclave_index(r, sender)
    IN [res |-> "Ok",
        st |-> [r EXCEPT
                   !.LatestIpfsHash = Insert(@, shard, ipfs_hash),
                   !.WorkerForShard = Insert(@, shard, sender_index)],
        events |-> <<[event |-> "CallConfirmed", who |-> sender, call_hash |-> call_hash],
                     [event |-> "UpdatedIpfsHash", shard |-> shard, index |-> sender_index,
                      ipfs_hash |-> ipfs_hash]>>]

confirm_call(r, sender, shard, call_hash, ipfs_hash) ==
    LET sender_index == enclave_index(r, sender)
    IN IF ~Exists(r.EnclaveIndex, sender)
       THEN Err(r, "IPFS state update requested by enclave that is not registered")
       ELSE [res |-> "Ok",
             st |-> [r EXCEPT
                        !.LatestIpfsHash = Insert(@, shard, ipfs_hash),
                        !.WorkerForShard = Insert(@, shard, sender_index)],
             events |-> <<[event |-> "CallConfirmed", who |-> sender, call_hash |-> call_hash],
                          [event |-> "UpdatedIpfsHash", shard |-> shard, index |-> sender_index,
                           ipfs_hash |-> ipfs_hash]>>]

\* what a call of the registry leaves behind
CommitRegistry(function, r) ==
    /\ call' = function
    /\ EnclaveRegistry' = r.st.EnclaveRegistry
    /\ EnclaveCount' = r.st.EnclaveCount
    /\ EnclaveIndex' = r.st.EnclaveIndex
    /\ LatestIpfsHash' = r.st.LatestIpfsHash
    /\ WorkerForShard' = r.st.WorkerForShard
    /\ events' = r.events
    /\ result' = r.res
    /\ UNCHANGED <<storage_vars, ceremonies_closed>>

RegisterEnclave(sender, ra_report, worker_url) ==
    CommitRegistry("register_enclave", register_enclave(Registry, sender, ra_report, worker_url))

UnregisterEnclave(sender) ==
    CommitRegistry("unregister_enclave", unregister_enclave(Registry, sender))

CallWorker(sender, request) ==
    CommitRegistry("call_worker", call_worker(Registry, sender, request))

ConfirmCall(sender, shard, call_hash, ipfs_hash) ==
    CommitRegistry("confirm_call", confirm_call(Registry, sender, shard, call_hash, ipfs_hash))

(***************************************************************************)
(* The environment of SpecRegistry: three workers register with their own  *)
(* certificate, with another worker's, with an empty or an oversized one,  *)
(* under one of two URLs or an oversized one; they unregister and confirm  *)
(* calls for two shards with one of two hashes.                            *)
(***************************************************************************)
\* the certificate that attests the key of a
CertOf(a) == <<encode_account(a), a, 0>>

\* a vector of n zero bytes
Zeros(n) == [i \in 1..n |-> 0]

Certs(sender) ==
    {CertOf(sender), CertOf((sender % Cardinality(Accounts)) + 1), <<>>, Zeros(MAX_RA_REPORT_LEN + 1)}

Urls == {<<1>>, <<2>>, Zeros(MAX_URL_LEN + 1)}

Shards == {0, 1}

IpfsHashes == {<<1>>, <<2>>}

InitRegistry == Genesis(U32(1))

NextRegistry ==
    \/ \E a \in Accounts : \E c \in Certs(a) : \E u \in Urls : RegisterEnclave(a, c, u)
    \/ \E a \in Accounts : UnregisterEnclave(a)
    \/ \E a \in Accounts : CallWorker(a, [shard |-> 0, cyphertext |-> <<>>])
    \/ \E a \in Accounts : \E sh \in Shards : \E h \in IpfsHashes : ConfirmCall(a, sh, <<>>, h)

SpecRegistry == InitRegistry /\ [][NextRegistry]_vars

\* C27: the keys of EnclaveRegistry are exactly 1..EnclaveCount; an account
\* has the index i >= 1 exactly when the entry i carries its key; a
\* register_enclave of a registered account keeps its index and the count,
\* one of a new account appends; an unregister_enclave moves the last entry
\* to the index that is freed, rewrites the index of its account and drops
\* the last key.
C27_EnclaveRegistry ==
    /\ [](/\ DOMAIN EnclaveRegistry = 1..EnclaveCount
          /\ \A a \in Accounts : \A i \in 1..(Cardinality(Accounts) + 1) :
                 enclave_index(Registry, a) = i <=> enclave(Registry, i).pubkey = a)
    /\ [][/\ Succeeded("register_enclave") =>
                LET a == events'[1].who
                IN IF Exists(EnclaveIndex, a)
                   THEN EnclaveIndex' = EnclaveIndex /\ EnclaveCount' = EnclaveCount
                   ELSE /\ EnclaveCount' = EnclaveCount + 1
                        /\ EnclaveIndex' = Insert(EnclaveIndex, a, EnclaveCount + 1)
          /\ Succeeded("unregister_enclave") =>
                LET a == events'[1].who
                    freed == EnclaveIndex[a]
                    last == EnclaveRegistry[EnclaveCount]
                IN /\ EnclaveCount' = EnclaveCount - 1
                   /\ DOMAIN EnclaveIndex' = DOMAIN EnclaveIndex \ {a}
                   /\ \A i \in 1..EnclaveCount' :
                          EnclaveRegistry'[i] = IF i = freed THEN last ELSE EnclaveRegistry[i]
                   /\ \A b \in DOMAIN EnclaveIndex' :
                          EnclaveIndex'[b] = IF b = last.pubkey THEN freed ELSE EnclaveIndex[b]]_vars

\* the second of three enclaves has unregistered and the third has its index
C27_Witness ==
    /\ call = "unregister_enclave" /\ result = "Ok"
    /\ events = <<[event |-> "RemovedEnclave", who |-> 2]>>
    /\ EnclaveCount = 2
    /\ enclave(Registry, 1).pubkey = 1
    /\ enclave(Registry, 2).pubkey = 3
    /\ enclave_index(Registry, 3) = 2

\* C28: confirm_call returns Ok exactly for an account whose key an entry of
\* EnclaveRegistry carries; a call that succeeds sets LatestIpfsHash of the
\* shard to the hash submitted and WorkerForShard of the shard to the index
\* of that entry, and leaves the other shards; a call that fails leaves
\* LatestIpfsHash and WorkerForShard as they are.
C28_ConfirmCall ==
    /\ [](\A a \in Accounts : \A sh \in Shards : \A h \in IpfsHashes :
             confirm_call(Registry, a, sh, <<>>, h).res = "Ok"
                 <=> \E i \in DOMAIN EnclaveRegistry : EnclaveRegistry[i].pubkey = a)
    /\ [][Called("confirm_call") =>
             IF result' = "Ok"
             THEN \E i \in DOMAIN EnclaveRegistry :
                      /\ EnclaveRegistry[i].pubkey = events'[1].who
                      /\ LatestIpfsHash' =
                             Insert(LatestIpfsHash, events'[2].shard, events'[2].ipfs_hash)
                      /\ WorkerForShard' = Insert(WorkerForShard, events'[2].shard, i)
             ELSE UNCHANGED <<LatestIpfsHash, WorkerForShard>>]_vars

\* a confirmation is refused when no enclave is registered any more, and the
\* hash and the worker of an earlier confirmation are still on file
C28_Witness ==
    /\ call = "confirm_call" /\ result # "Ok"
    /\ EnclaveCount = 0
    /\ \E sh \in Shards : Get(LatestIpfsHash, sh, <<>>) # <<>> /\ Get(WorkerForShard, sh, 0) = 1

(***************************************************************************)
(* The environment of SpecOverflow: the calls of Spec from a genesis that  *)
(* endows account 2 with a balance one reward below u64::MAX, which holds  *)
(* one more reward, or one unit above that, which does not.                *)
(***************************************************************************)
\* 2^64 - 1 - d, for d below 2^16
BelowMax(d) == <<LimbBase - 1 - d, LimbBase - 1, LimbBase - 1, LimbBase - 1>>

InitOverflow == \E d \in {REWARD, REWARD - 1} : GenesisEndowed(U32(1), 2 :> BelowMax(d))

SpecOverflow == InitOverflow /\ [][Next]_vars

\* a > b, for integers of the same width
exceeds(a, b) ==
    \E i \in 1..Len(a) : a[i] > b[i] /\ \A j \in (i + 1)..Len(a) : a[j] = b[j]

\* C30: when the reward of a member that deserves one does not fit its
\* balance, the next_phase that would leave WITNESSING changes nothing: no
\* balance wraps, no member keeps a credit, nothing is purged, the phase and
\* the index stay; a next_phase that does leave WITNESSING leaves a balance
\* as it is or adds CeremonyReward to it, the sum being above the old
\* balance.
C30_CheckedReward ==
    [][Called("next_phase") /\ CurrentPhase = WITNESSING =>
        LET ballot == ballot_meetup_n_votes(Storage, SINGLE_MEETUP_INDEX)
        IN IF /\ ballot.some
              /\ \E a \in Accounts :
                     /\ Deserves(a, ballot.n, ballot.c)
                     /\ exceeds(free_balance(Storage, a), BelowMax(REWARD))
           THEN result' # "Ok" /\ UNCHANGED storage_vars
           ELSE \A a \in Accounts :
                    \/ free_balance(Storage, a)' = free_balance(Storage, a)
                    \/ /\ free_balance(Storage, a)' =
                              SubSeq(add_limbs(free_balance(Storage, a), CeremonyReward, 0), 1, 4)
                       /\ exceeds(free_balance(Storage, a)', free_balance(Storage, a))]_vars

\* the master's next_phase was aborted in WITNESSING: account 1, first in
\* the meetup and with two witnesses of its three members, has no credit
C30_Witness ==
    /\ call = "next_phase"
    /\ result = "panic: Balance should never overflow"
    /\ CurrentPhase = WITNESSING
    /\ Len(Members) = 3 /\ Members[1] = 1
    /\ Len(RecordOf(Storage, 1)) = 2
    /\ free_balance(Storage, 1) = U64(0)
    /\ free_balance(Storage, 2) = BelowMax(REWARD - 1)

\* C32 as claimed: an account whose free balance grows when the ceremony
\* closes under the ballot result (n_confirmed, n_honest) has at least
\* n_honest - 1 distinct peers in its witness record, and at least
\* n_honest - 1 distinct peers of the record hold the account in their own
\* record; a peer stored several times counts once.
C32_DistinctPeersRewarded ==
    [][ClosesCeremony /\ ballot_meetup_n_votes(Storage, SINGLE_MEETUP_INDEX).some =>
        LET ballot == ballot_meetup_n_votes(Storage, SINGLE_MEETUP_INDEX)
        IN \A a \in Rewardees :
               free_balance(Storage, a)' # free_balance(Storage, a) =>
                   /\ a \in MemberSet
                   /\ WitnessSet(a) \subseteq MemberSet \ {a}
                   /\ Cardinality(WitnessSet(a)) >= ballot.c - 1
                   /\ Cardinality(Reciprocated(a)) >= ballot.c - 1]_vars

\* C34 as claimed: when WorkerForShard(s) = i with i # 0, EnclaveRegistry(i)
\* is the enclave of the worker that confirmed a call for s last.  Step by
\* step: a confirmation for s makes it the enclave of the confirming worker,
\* and no other call, the unregistering of that or of another worker
\* included, changes the worker whose enclave it is.
C34_WorkerForShard ==
    [][\A sh \in Shards :
          LET before == enclave(Registry, Get(WorkerForShard, sh, 0))
              after == Get(EnclaveRegistry', Get(WorkerForShard', sh, 0), DefaultEnclave)
          IN Get(WorkerForShard', sh, 0) # 0 =>
                 IF Succeeded("confirm_call") /\ events'[2].shard = sh
                 THEN after.pubkey = events'[1].who
                 ELSE after.pubkey = before.pubkey]_vars

\* C35 as claimed: register_witnesses by account a accepts a witness, a
\* claim of any account signed by any account for the current ceremony and
\* meetup, only if the claim names a as the claimant.
C35_ClaimNamesCaller ==
    \A a \in Accounts : \A claimant \in Accounts : \A signer \in Accounts :
        LET witness == meetup_claim_sign(claimant, CurrentCeremonyIndex,
                                         meetup_index(Storage, CurrentCeremonyIndex, a), signer, 3)
            r == register_witnesses(Storage, a, <<witness>>)
        IN r.res = "Ok" /\ Contains(RecordOf(r.st, a), signer) => witness.claim.claimant_public = a

\* C36: MeetupCount is 0 while the phase is REGISTERING and 1 while it is
\* ASSIGNING or WITNESSING, so in WITNESSING issue_rewards passes its test of
\* MeetupCount and returns Ok; the step that closes a ceremony starts with
\* MeetupCount 1 and ends with 0, also when the meetup is empty.
C36_MeetupCount ==
    /\ [](/\ CurrentPhase = REGISTERING => MeetupCount = 0
          /\ CurrentPhase \in {ASSIGNING, WITNESSING} => MeetupCount = 1
          /\ CurrentPhase = WITNESSING => issue_rewards(Storage).res = "Ok")
    /\ [][ClosesCeremony => MeetupCount = 1 /\ MeetupCount' = 0]_vars

\* nobody registered: the single meetup exists and is empty when the rewards
\* are due
C36_Witness ==
    /\ CurrentPhase = WITNESSING
    /\ MeetupCount = 1
    /\ Exists(MeetupRegistry, <<CurrentCeremonyIndex, SINGLE_MEETUP_INDEX>>)
    /\ Members = <<>>
    /\ issue_rewards(Storage).res = "Ok"

\* C37: while the phase is ASSIGNING or WITNESSING no call but the
\* next_phase that closes the ceremony changes ParticipantRegistry,
\* ParticipantIndex, ParticipantCount, MeetupRegistry or MeetupIndex; while
\* the phase is REGISTERING or ASSIGNING WitnessRegistry, WitnessIndex and
\* MeetupParticipantCountVote are empty, WitnessCount is 0, and no call
\* changes them.
C37_FrozenOutsidePhase ==
    /\ [](CurrentPhase \in {REGISTERING, ASSIGNING} =>
              /\ WitnessRegistry = EmptyMap /\ WitnessIndex = EmptyMap
              /\ WitnessCount = 0 /\ MeetupParticipantCountVote = EmptyMap)
    /\ [][~ClosesCeremony /\ CurrentPhase \in {ASSIGNING, WITNESSING} =>
              (UNCHANGED <<ParticipantRegistry, ParticipantIndex, ParticipantCount,
                           MeetupRegistry, MeetupIndex>>)]_vars
    /\ [][CurrentPhase # WITNESSING =>
              (UNCHANGED <<WitnessRegistry, WitnessIndex, WitnessCount,
                           MeetupParticipantCountVote>>)]_vars

\* witnesses are on file in WITNESSING and a registration has just been
\* refused: the registry still holds the three participants
C37_Witness ==
    /\ CurrentPhase = WITNESSING
    /\ call = "register_participant" /\ result # "Ok"
    /\ ParticipantCount = 3 /\ Len(Members) = 3
    /\ WitnessCount = 2

\* C38: a balance changes only in the step that closes the ceremony, and
\* in that step it grows by CeremonyReward; the accounts credited are
\* members of the single meetup, at most MEETUP_MAX of them, so that the
\* total credited is at most MEETUP_MAX * CeremonyReward.  From the zero
\* balances of the genesis a balance is a multiple of the reward, with no
\* more rewards than ceremonies were closed.
C38_OneRewardPerCycle ==
    /\ [](\A a \in CrowdAccounts :
              free_balance(Storage, a) \in {U64(k * REWARD) : k \in 0..ceremonies_closed})
    /\ [][LET credited == {a \in CrowdAccounts : free_balance(Storage, a)' # free_balance(Storage, a)}
          IN credited # {} =>
                 /\ ClosesCeremony
                 /\ credited \subseteq MemberSet
                 /\ Cardinality(credited) * REWARD <= MEETUP_MAX * REWARD
                 /\ \A a \in credited :
                        /\ checked_add(free_balance(Storage, a), CeremonyReward).some
                        /\ free_balance(Storage, a)' =
                               checked_add(free_balance(Storage, a), CeremonyReward).val]_vars

\* thirteen accounts registered, the ceremony is closed and the three members
\* that witnessed one another hold one reward each, the others nothing
C38_Witness ==
    /\ call = "next_phase" /\ result = "Ok"
    /\ ceremonies_closed = 1
    /\ CurrentPhase = REGISTERING
    /\ \A a \in {2, 3, LastAccount} : free_balance(Storage, a) = CeremonyReward
    /\ \A a \in CrowdAccounts \ {2, 3, LastAccount} : free_balance(Storage, a) = U64(0)

\* C39: in WITNESSING, the register_witnesses calls of two distinct callers
\* both return Ok in one order exactly when they do in the other, and then
\* the two orders leave every account the same witness record and the same
\* vote, and the ceremony closed after them leaves the same balances.
C39_OrderOfSubmission ==
    CurrentPhase = WITNESSING =>
        \E first \in {[x \in Accounts |-> [w \in Batches(x) |-> register_witnesses(Storage, x, w)]]} :
            \A a \in Accounts : \A b \in {x \in Accounts : x > a} :
                \A wa \in DOMAIN first[a] : \A wb \in DOMAIN first[b] :
                    LET a_first == first[a][wa]
                        b_first == first[b][wb]
                    IN IF a_first.res # "Ok" \/ b_first.res # "Ok"
                       THEN /\ a_first.res = "Ok" => register_witnesses(a_first.st, b, wb).res # "Ok"
                            /\ b_first.res = "Ok" => register_witnesses(b_first.st, a, wa).res # "Ok"
                       ELSE \E a_then_b \in {register_witnesses(a_first.st, b, wb)} :
                            \E b_then_a \in {register_witnesses(b_first.st, a, wa)} :
                                /\ a_then_b.res = "Ok" /\ b_then_a.res = "Ok"
                                /\ \A x \in Accounts :
                                       /\ RecordOf(a_then_b.st, x) = RecordOf(b_then_a.st, x)
                                       /\ meetup_participant_count_vote(a_then_b.st, CurrentCeremonyIndex, x)
                                              = meetup_participant_count_vote(b_then_a.st, CurrentCeremonyIndex, x)
                                /\ next_phase(a_then_b.st, CeremonyMaster).st.FreeBalance
                                       = next_phase(b_then_a.st, CeremonyMaster).st.FreeBalance

\* account 1 has submitted; the submissions of 2 and 3 succeed in both orders,
\* number the two records differently and complete a ceremony that pays
C39_Witness ==
    /\ CurrentPhase = WITNESSING
    /\ WitnessCount = 1
    /\ \E wa \in Batches(2) : \E wb \in Batches(3) :
           LET a_then_b == register_witnesses(register_witnesses(Storage, 2, wa).st, 3, wb)
               b_then_a == register_witnesses(register_witnesses(Storage, 3, wb).st, 2, wa)
           IN /\ register_witnesses(Storage, 2, wa).res = "Ok" /\ a_then_b.res = "Ok"
              /\ register_witnesses(Storage, 3, wb).res = "Ok" /\ b_then_a.res = "Ok"
              /\ witness_index(a_then_b.st, CurrentCeremonyIndex, 2) = 2
              /\ witness_index(b_then_a.st, CurrentCeremonyIndex, 2) = 3
              /\ DOMAIN next_phase(a_then_b.st, CeremonyMaster).st.FreeBalance = {1, 2, 3}

(***************************************************************************)
(* SpecScenario: the test issue_reward_works.  Alice, the master, is 1,    *)
(* Bob 2, Charlie 3, Dave 4, Eve 5, Ferdie 6.  They register in the order  *)
(* of the test; any of them may call next_phase; in WITNESSING they        *)
(* submit, in any order, the witnesses the test gives them.                *)
(***************************************************************************)
issue_reward_works ==
    [registered |-> <<1, 2, 6, 3, 4, 5>>,
     witnesses |-> <<(<<2, 3, 4>>), (<<1, 3, 4>>), (<<1, 2>>), (<<1, 2, 3>>), (<<1, 2, 3, 4>>), (<<4>>)>>,
     n_participants |-> <<5, 5, 5, 6, 5, 6>>]

NextScenario ==
    \/ \E a \in DOMAIN issue_reward_works.witnesses : Running /\ NextPhase(a)
    \/ \E i \in {ParticipantCount + 1} \cap DOMAIN issue_reward_works.registered :
           Running /\ RegisterParticipant(issue_reward_works.registered[i])
    \/ \E a \in DOMAIN issue_reward_works.witnesses :
           LET witnesses == issue_reward_works.witnesses[a]
               \* testimonials.insert(0, ..): the last signer comes first
               testimonials == [i \in 1..Len(witnesses) |-> witnesses[Len(witnesses) + 1 - i]]
           IN Running /\ RegisterWitnesses(a,
                  witnesses_signed_by(a, testimonials, issue_reward_works.n_participants[a]))

SpecScenario == InitReward /\ [][NextScenario]_vars

\* C33 as claimed: when the ceremony of the scenario closes after all six
\* have submitted, the ballot yields (5, 5) and the reward run credits REWARD
\* to Alice and Bob and nothing to Charlie, Dave, Eve and Ferdie.
C33_ScenarioAsClaimed ==
    [][ClosesCeremony /\ WitnessCount = 6 =>
        /\ ballot_meetup_n_votes(Storage, SINGLE_MEETUP_INDEX) = [some |-> TRUE, n |-> 5, c |-> 5]
        /\ \A a \in 1..6 :
               free_balance(Storage, a)' =
                   IF a \in {1, 2}
                   THEN checked_add(free_balance(Storage, a), U64(REWARD)).val
                   ELSE free_balance(Storage, a)]_vars

\* C33: when the ceremony of the scenario closes after all six have
\* submitted, the ballot yields (5, 4), four members having voted 5, and the
\* reward run credits REWARD to Alice and Bob and nothing to Charlie, Dave,
\* Eve and Ferdie.
C33_Scenario ==
    [][ClosesCeremony /\ WitnessCount = 6 =>
        /\ ballot_meetup_n_votes(Storage, SINGLE_MEETUP_INDEX) = [some |-> TRUE, n |-> 5, c |-> 4]
        /\ \A a \in 1..6 :
               free_balance(Storage, a)' =
                   IF a \in {1, 2}
                   THEN checked_add(free_balance(Storage, a), U64(REWARD)).val
                   ELSE free_balance(Storage, a)]_vars

C33_Witness ==
    /\ CurrentPhase = WITNESSING
    /\ Members = issue_reward_works.registered
    /\ WitnessCount = 6
    /\ RecordOf(Storage, 5) = <<1, 2, 3, 4>>
    /\ next_phase(Storage, CeremonyMaster).st.FreeBalance = (1 :> U64(REWARD) @@ 2 :> U64(REWARD))

(***************************************************************************)
(* SpecFair: the behaviours of Spec in which the master's advance is not   *)
(* put off for ever.  The step is told by what it leaves: only a           *)
(* next_phase of the master returns Ok, and it enters the next phase.      *)
(***************************************************************************)
MasterAdvances ==
    /\ Running
    /\ call' = "next_phase" /\ result' = "Ok"
    /\ CurrentPhase' = PhaseAfter(CurrentPhase)

SpecFair == Spec /\ WF_<<call, result, CurrentPhase>>(MasterAdvances)

\* C31: in every state next_phase by the master returns Ok, whoever has or
\* has not registered or submitted witnesses; when the master's next_phase
\* is not put off for ever, each ceremony is closed in the end, with
\* nothing of it left on file, and REGISTERING is entered again.
C31_NoTerminalState ==
    /\ [](next_phase(Storage, CeremonyMaster).res = "Ok")
    /\ \A k \in 0..(MaxCeremonies - 1) :
           (ceremonies_closed = k) ~>
               (/\ ceremonies_closed = k + 1
                /\ CurrentPhase = REGISTERING
                /\ ParticipantCount = 0 /\ MeetupCount = 0 /\ WitnessCount = 0
                /\ ParticipantRegistry = EmptyMap /\ MeetupRegistry = EmptyMap
                /\ WitnessRegistry = EmptyMap /\ MeetupParticipantCountVote = EmptyMap)

\* nobody has registered and the master can leave WITNESSING
C31_Witness ==
    /\ CurrentPhase = WITNESSING
    /\ ParticipantCount = 0
    /\ Members = <<>>
    /\ next_phase(Storage, CeremonyMaster).res = "Ok"
    /\ next_phase(Storage, CeremonyMaster).st.CurrentPhase = REGISTERING

====
